---- MODULE Spec2Model ----
(***************************************************************************)
(* A model of the hpfeeds-rs broker: the wire codec (hpfeeds-core), the    *)
(* authenticators and access context (hpfeeds-server/src/auth.rs, db.rs),  *)
(* the client handshake (hpfeeds-client) and the per-connection handler    *)
(* with its subscriber registry (hpfeeds-server/src/main.rs).              *)
(*                                                                         *)
(* Byte strings are sequences of naturals in 0..255.  Text is written as   *)
(* its UTF-8 bytes.                                                        *)
(***************************************************************************)
EXTENDS Integers, Sequences, FiniteSets, TLC

(***************************************************************************)
(* Bounds of the model.                                                    *)
(***************************************************************************)
\* Number of connections the listener accepts.
NConns == 2
\* Number of authorized Publish frames the broker accepts over a run.
MaxPub == 3
\* Capacity of a broadcast channel (CHANNEL_SIZE, main.rs:55, is 65536:
\* already a power of two, so tokio does not round it); scaled down.
CHANNEL_SIZE == 1
\* Items drained per wakeup (BATCH_LIMIT, main.rs:56, is 128); scaled down.
BATCH_LIMIT == 2

(***************************************************************************)
(* Program constants.                                                      *)
(***************************************************************************)
OP_ERROR == 0
OP_INFO == 1
OP_AUTH == 2
OP_PUBLISH == 3
OP_SUBSCRIBE == 4
OP_UNSUBSCRIBE == 5
MAXBUF == 1048576
\* vec![0u8; 16]: the length of the challenge nonce.
NONCE_LEN == 16
\* The longest counted string: one length byte.
STR8_MAX == 255

(***************************************************************************)
(* Byte strings used as text.                                              *)
(***************************************************************************)
\* "hpfeeds-rs"
BROKER_NAME == <<104, 112, 102, 101, 101, 100, 115, 45, 114, 115>>
\* "*"
STAR == <<42>>
\* U+FFFD REPLACEMENT CHARACTER in UTF-8.
REPLACEMENT == <<239, 191, 189>>

Some(x) == [some |-> TRUE, v |-> x]
None == [some |-> FALSE, v |-> <<>>]

RECURSIVE Flatten(_)
\* The concatenation of a sequence of byte strings.
Flatten(ss) == IF ss = <<>> THEN <<>> ELSE Head(ss) \o Flatten(Tail(ss))

(***************************************************************************)
(* Frames (hpfeeds-core/src/lib.rs).                                       *)
(***************************************************************************)
ErrorF(msg) == [tag |-> "Error", msg |-> msg]
InfoF(name, rand) == [tag |-> "Info", name |-> name, rand |-> rand]
AuthF(ident, secret_hash) ==
    [tag |-> "Auth", ident |-> ident, secret_hash |-> secret_hash]
PublishF(ident, channel, payload) ==
    [tag |-> "Publish", ident |-> ident, channel |-> channel, payload |-> payload]
SubscribeF(ident, channel) ==
    [tag |-> "Subscribe", ident |-> ident, channel |-> channel]
UnsubscribeF(ident, channel) ==
    [tag |-> "Unsubscribe", ident |-> ident, channel |-> channel]

\* put_u32 / get_u32, big-endian.  TLC's integers end at 2^31 - 1:
\* the model encodes no frame that long (`as u32` never truncates), and a
\* header of 2^31 or more reads as 2^31 - 1, which every comparison of
\* decode (with MAXBUF and the per-opcode ceilings) treats alike.
put_u32(n) ==
    << (n \div 16777216) % 256, (n \div 65536) % 256, (n \div 256) % 256, n % 256 >>
get_u32(b) ==
    IF b[1] >= 128 THEN 2147483647
    ELSE b[1] * 16777216 + b[2] * 65536 + b[3] * 256 + b[4]

\* pack_str8_bytes letting a 256-byte string through (its length byte wraps).
pack_str8_bytes_wide(b) ==
    IF Len(b) > STR8_MAX + 1
    THEN [ok |-> FALSE, v |-> <<>>]
    ELSE [ok |-> TRUE, v |-> <<Len(b) % 256>> \o b]

\* pack_str8_bytes: Err for more than 255 bytes, else length byte + bytes.
pack_str8_bytes(b) ==
    IF Len(b) > STR8_MAX
    THEN [ok |-> FALSE, v |-> <<>>]
    ELSE [ok |-> TRUE, v |-> <<Len(b)>> \o b]

\* read_str8_bytes leaving the last byte of the string in the buffer.
read_str8_bytes_short(buf) ==
    IF buf = <<>>
    THEN [ok |-> FALSE, s |-> <<>>, rest |-> <<>>]
    ELSE IF Len(buf) < 1 + buf[1]
    THEN [ok |-> FALSE, s |-> <<>>, rest |-> <<>>]
    ELSE [ok |-> TRUE, s |-> SubSeq(buf, 2, buf[1]),
          rest |-> SubSeq(buf, 1 + buf[1], Len(buf))]

\* read_str8_bytes: splits one counted string off the front of buf.
read_str8_bytes(buf) ==
    IF buf = <<>>
    THEN [ok |-> FALSE, s |-> <<>>, rest |-> <<>>]
    ELSE IF Len(buf) < 1 + buf[1]
    THEN [ok |-> FALSE, s |-> <<>>, rest |-> <<>>]
    ELSE [ok |-> TRUE, s |-> SubSeq(buf, 2, 1 + buf[1]),
          rest |-> SubSeq(buf, 2 + buf[1], Len(buf))]

\* The body (after the opcode) that encode builds, or the failure of a `?`.
EncodeData(item) ==
    CASE item.tag = "Error" -> [ok |-> TRUE, v |-> item.msg]
      [] item.tag = "Info" ->
            LET n == pack_str8_bytes(item.name) IN
            IF n.ok THEN [ok |-> TRUE, v |-> n.v \o item.rand] ELSE n
      [] item.tag = "Auth" ->
            LET i == pack_str8_bytes(item.ident) IN
            IF i.ok THEN [ok |-> TRUE, v |-> i.v \o item.secret_hash] ELSE i
      [] item.tag = "Publish" ->
            LET i == pack_str8_bytes(item.ident)
                c == pack_str8_bytes(item.channel) IN
            IF ~i.ok THEN i
            ELSE IF ~c.ok THEN c
            ELSE [ok |-> TRUE, v |-> i.v \o c.v \o item.payload]
      [] item.tag = "Subscribe" ->
            LET i == pack_str8_bytes(item.ident) IN
            IF i.ok THEN [ok |-> TRUE, v |-> i.v \o item.channel] ELSE i
      [] item.tag = "Unsubscribe" ->
            LET i == pack_str8_bytes(item.ident) IN
            IF i.ok THEN [ok |-> TRUE, v |-> i.v \o item.channel] ELSE i

OpOf(item) ==
    CASE item.tag = "Error" -> OP_ERROR
      [] item.tag = "Info" -> OP_INFO
      [] item.tag = "Auth" -> OP_AUTH
      [] item.tag = "Publish" -> OP_PUBLISH
      [] item.tag = "Subscribe" -> OP_SUBSCRIBE
      [] item.tag = "Unsubscribe" -> OP_UNSUBSCRIBE

\* Encoder::encode: the body is built in a local vector first, so a failed
\* counted string returns before dst is touched.
encode(item, dst) ==
    LET d == EncodeData(item) IN
    IF ~d.ok THEN [ok |-> FALSE, dst |-> dst]
    ELSE [ok |-> TRUE,
          dst |-> dst \o put_u32(5 + Len(d.v)) \o <<OpOf(item)>> \o d.v]

\* HpfeedsCodec::encode_to_bytes: the bytes of one frame, or an error.
encode_to_bytes(item) ==
    LET e == encode(item, <<>>) IN
    IF ~e.ok THEN [ok |-> FALSE, v |-> <<>>]
    ELSE [ok |-> TRUE, v |-> e.dst]

\* The per-opcode ceiling of decode.
max_op_len(op) ==
    CASE op = OP_INFO -> 1 + 256 + 20
      [] op = OP_AUTH -> 1 + 256 + 20
      [] op = OP_PUBLISH -> MAXBUF
      [] op = OP_SUBSCRIBE -> 1 + 256 + 256 * 2
      [] op = OP_UNSUBSCRIBE -> 1 + 256 + 256 * 2
      [] op = OP_ERROR -> 1 + 256
      [] OTHER -> MAXBUF

DecErr(src) == [kind |-> "error", frame |-> <<>>, rest |-> src]
DecNone(src) == [kind |-> "incomplete", frame |-> <<>>, rest |-> src]
DecOk(f, rest) == [kind |-> "frame", frame |-> f, rest |-> rest]

\* The dispatch on the opcode of a complete message msg (opcode removed);
\* rest is what stays in the buffer.
DecodeBody(op, msg, rest) ==
    LET i == read_str8_bytes(msg) IN
    CASE op = OP_ERROR -> DecOk(ErrorF(msg), rest)
      [] op = OP_INFO ->
            IF i.ok THEN DecOk(InfoF(i.s, i.rest), rest) ELSE DecErr(rest)
      [] op = OP_AUTH ->
            IF i.ok THEN DecOk(AuthF(i.s, i.rest), rest) ELSE DecErr(rest)
      [] op = OP_PUBLISH ->
            IF ~i.ok THEN DecErr(rest)
            ELSE LET c == read_str8_bytes(i.rest) IN
                 IF c.ok THEN DecOk(PublishF(i.s, c.s, c.rest), rest)
                 ELSE DecErr(rest)
      [] op = OP_SUBSCRIBE ->
            IF i.ok THEN DecOk(SubscribeF(i.s, i.rest), rest) ELSE DecErr(rest)
      [] op = OP_UNSUBSCRIBE ->
            IF i.ok THEN DecOk(UnsubscribeF(i.s, i.rest), rest) ELSE DecErr(rest)
      [] OTHER -> DecErr(rest)

\* decode checking the declared length only once the opcode is buffered.
decode_wait_opcode(src) ==
    IF Len(src) < 5 THEN DecNone(src)
    ELSE LET len == get_u32(src) IN
         IF len > 5 + max_op_len(src[5]) THEN DecErr(src)
         ELSE IF Len(src) < len THEN DecNone(src)
         ELSE IF len < 4 THEN [kind |-> "panic", frame |-> <<>>, rest |-> <<>>]
         ELSE LET msg == SubSeq(src, 5, len)
                  rest == SubSeq(src, len + 1, Len(src)) IN
              IF msg = <<>> THEN DecErr(rest)
              ELSE DecodeBody(msg[1], Tail(msg), rest)

\* Decoder::decode on the buffer src: a frame, "incomplete" or an error,
\* with the buffer it leaves.  A declared length below 4 makes len - 4
\* underflow: the decoder panics.
decode(src) ==
    IF Len(src) < 4 THEN DecNone(src)
    ELSE LET len == get_u32(src) IN
         IF len > MAXBUF THEN DecErr(src)
         ELSE IF Len(src) >= 5 /\ len > 5 + max_op_len(src[5]) THEN DecErr(src)
         ELSE IF Len(src) < len THEN DecNone(src)
         ELSE IF len < 4 THEN [kind |-> "panic", frame |-> <<>>, rest |-> <<>>]
         ELSE LET msg == SubSeq(src, 5, len)
                  rest == SubSeq(src, len + 1, Len(src)) IN
              IF msg = <<>> THEN DecErr(rest)
              ELSE DecodeBody(msg[1], Tail(msg), rest)

RECURSIVE DecodeAll(_)
\* What a peer that decodes with the same codec reads from a byte stream:
\* the frames, until the stream is used up or does not decode.
DecodeAll(src) ==
    LET d == decode(src) IN
    IF d.kind = "frame" THEN <<d.frame>> \o DecodeAll(d.rest) ELSE <<>>

(***************************************************************************)
(* Authentication (hpfeeds-core hashsecret, hpfeeds-server auth.rs, db.rs) *)
(***************************************************************************)
\* SHA-1 as a collision-free function: the digest of x determines x.
Sha1(x) == <<Len(x)>> \o x

\* hashsecret: SHA-1 over rand followed by the secret's bytes.
hashsecret(rand, secret) == Sha1(rand \o secret)

AccessContext(ident, pub_channels, sub_channels) ==
    [ident |-> ident, pub_channels |-> pub_channels, sub_channels |-> sub_channels]

\* can_publish reading the subscribe list.
can_publish_sub_list(ctx, channel) ==
    \E i \in DOMAIN ctx.sub_channels :
        ctx.sub_channels[i] = channel \/ ctx.sub_channels[i] = STAR

can_publish(ctx, channel) ==
    \E i \in DOMAIN ctx.pub_channels :
        ctx.pub_channels[i] = channel \/ ctx.pub_channels[i] = STAR

\* can_subscribe reading the publish list.
can_subscribe_pub_list(ctx, channel) ==
    \E i \in DOMAIN ctx.pub_channels :
        ctx.pub_channels[i] = channel \/ ctx.pub_channels[i] = STAR

\* can_subscribe granting what either list holds.
can_subscribe_either_list(ctx, channel) ==
    \E l \in {ctx.pub_channels, ctx.sub_channels} : \E i \in DOMAIN l :
        l[i] = channel \/ l[i] = STAR

can_subscribe(ctx, channel) ==
    \E i \in DOMAIN ctx.sub_channels :
        ctx.sub_channels[i] = channel \/ ctx.sub_channels[i] = STAR

UserData(secret, pub_channels, sub_channels) ==
    [secret |-> secret, pub_channels |-> pub_channels, sub_channels |-> sub_channels]

\* authenticate hashing the secret before the nonce.
authenticate_secret_first(m, ident, secret_hash, rand) ==
    IF ident \in DOMAIN m
    THEN IF Sha1(m[ident].secret \o rand) = secret_hash
         THEN Some(AccessContext(ident, m[ident].pub_channels, m[ident].sub_channels))
         ELSE None
    ELSE None

\* MemoryAuthenticator::authenticate over the map m of ident -> UserData.
authenticate(m, ident, secret_hash, rand) ==
    IF ident \in DOMAIN m
    THEN IF hashsecret(rand, m[ident].secret) = secret_hash
         THEN Some(AccessContext(ident, m[ident].pub_channels, m[ident].sub_channels))
         ELSE None
    ELSE None

\* The rows of the permissions table for ident, in the order of the table.
RECURSIVE PermissionsOf(_, _)
PermissionsOf(permissions, ident) ==
    IF permissions = <<>> THEN <<>>
    ELSE IF Head(permissions).ident = ident
    THEN <<Head(permissions)>> \o PermissionsOf(Tail(permissions), ident)
    ELSE PermissionsOf(Tail(permissions), ident)

\* The loop over perms: the channels of the rows whose flag is set.
RECURSIVE ChannelsWith(_, _)
ChannelsWith(perms, flag) ==
    IF perms = <<>> THEN <<>>
    ELSE IF Head(perms)[flag]
    THEN <<Head(perms).channel>> \o ChannelsWith(Tail(perms), flag)
    ELSE ChannelsWith(Tail(perms), flag)

\* SqliteAuthenticator::authenticate over db, the tables users (ident ->
\* secret) and permissions (rows ident, channel, can_pub, can_sub), when
\* the database answers its queries.
SqliteAuthenticator_authenticate(db, ident, secret_hash, rand) ==
    IF ident \notin DOMAIN db.users THEN None
    ELSE IF hashsecret(rand, db.users[ident]) /= secret_hash THEN None
    ELSE LET perms == PermissionsOf(db.permissions, ident) IN
         Some(AccessContext(ident, ChannelsWith(perms, "can_pub"),
                            ChannelsWith(perms, "can_sub")))

RECURSIVE from_utf8_lossy(_)
\* String::from_utf8_lossy over the model's alphabet: ASCII bytes and the
\* encoding of U+FFFD are kept, every other byte (the alphabet holds no
\* other multi-byte sequence) becomes U+FFFD.
from_utf8_lossy(b) ==
    IF b = <<>> THEN <<>>
    ELSE IF b[1] < 128 THEN <<b[1]>> \o from_utf8_lossy(Tail(b))
    ELSE IF Len(b) >= 3 /\ SubSeq(b, 1, 3) = REPLACEMENT
    THEN REPLACEMENT \o from_utf8_lossy(SubSeq(b, 4, Len(b)))
    ELSE REPLACEMENT \o from_utf8_lossy(Tail(b))

\* connect_and_auth, after connecting: reads one frame from the bytes the
\* broker sent; on an Info frame answers Auth{ident, hashsecret(rand, secret)}.
connect_and_auth(received, ident, secret) ==
    LET d == decode(received) IN
    IF d.kind = "frame" /\ d.frame.tag = "Info"
    THEN Some(AuthF(ident, hashsecret(d.frame.rand, secret)))
    ELSE None

(***************************************************************************)
(* The inputs of the broker model.                                         *)
(***************************************************************************)
Conns == 1..NConns

\* The channel name peers put on the wire: one byte that is not UTF-8,
\* which the handler reads as U+FFFD.  "a" is a name in allow-lists.
ChA == <<97>>
ChBad == <<255>>
WireChannels == {ChBad}

\* Idents: "u" (may publish), "v" (may subscribe), "w" (wildcard), "x" (no
\* such user).
IdU == <<117>>
IdV == <<118>>
IdW == <<119>>
IdX == <<120>>
WireIdents == {IdU, IdV, IdW, IdX}

SecretU == <<49>>
SecretW == <<50>>
Secrets == {SecretU, SecretW}

\* The user store main() builds: add_user from the configuration file
\* and add (which grants "*"/"*") for --auth.
ConfiguredUsers ==
    (IdU :> UserData(SecretU, <<REPLACEMENT>>, <<ChA>>)) @@
    (IdV :> UserData(SecretU, <<ChA>>, <<REPLACEMENT>>)) @@
    (IdW :> UserData(SecretW, <<STAR>>, <<STAR>>))

\* What /dev/urandom yields, NONCE_LEN bytes: connection c reads the byte c
\* NONCE_LEN times, so no two connections are given the same nonce.
Nonce(c) == [i \in 1..NONCE_LEN |-> c]
Nonces == { Nonce(c) : c \in Conns }

\* The Info frame of a connection with nonce r, as bytes.
InfoBytes(r) == encode_to_bytes(InfoF(BROKER_NAME, r)).v

\* The Auth frames a peer may send first: the answer of connect_and_auth to
\* the Info of this or of another connection (a replayed proof), for any
\* ident and secret, or an empty proof.
FirstAuthFrames ==
    { connect_and_auth(InfoBytes(r), i, s).v :
        r \in Nonces, i \in WireIdents, s \in Secrets }
    \cup { AuthF(i, <<>>) : i \in WireIdents }

\* tokio's broadcast::channel rounds the capacity up to a power of two.
RECURSIVE next_power_of_two(_, _)
next_power_of_two(n, p) == IF p >= n THEN p ELSE next_power_of_two(n, 2 * p)
Capacity == next_power_of_two(CHANNEL_SIZE, 1)

(***************************************************************************)
(* State.                                                                  *)
(***************************************************************************)
VARIABLES
    users,        \* the MemoryAuthenticator's map ident -> UserData
    subscribers,  \* SubscriberMap: chan_str -> the messages its sender queued
    metrics,      \* the five counters
    st,           \* per connection: "Idle", "AwaitAuth", "Serving", "Terminated"
    randbuf,      \* per connection: the nonce sent in Info
    access_ctx,   \* per connection: Some(AccessContext) once authenticated
    stream_map,   \* per connection: chan_str -> position of its receiver
    pc,           \* per connection: "select" or "drain" (inside a wakeup)
    write_buf,    \* per connection: the batch being built
    rd,           \* per connection: "open", or "end" once the frame stream ended
    sent,         \* per connection: the buffers written to the socket, in order
    why,          \* per connection: what ended the handler
    ignored,      \* per connection, as history: the <<tag, chan_str>> of the
                  \* frames the access context made it drop
    call,         \* a call of a pure function: its arguments and its result
    listening     \* the accept loop of main is running

vars == << users, subscribers, metrics, st, randbuf, access_ctx, stream_map,
           pc, write_buf, rd, sent, why, ignored, call, listening >>

\* No call is being made.
NoCall == [fn |-> "none"]

\* A buffer is its bytes and, as history, the <<chan_str, position>> each
\* of its messages was read from.
EmptyBuf == [bytes |-> <<>>, items |-> <<>>]

\* The broker before the listener accepts anything, over the user store m.
InitBroker(m) ==
    /\ users = m
    /\ subscribers = [k \in {} |-> <<>>]
    /\ metrics = [delivered |-> 0, lagged |-> 0, published |-> 0,
                  auth_success |-> 0, auth_fail |-> 0]
    /\ st = [c \in Conns |-> "Idle"]
    /\ randbuf = [c \in Conns |-> <<>>]
    /\ access_ctx = [c \in Conns |-> None]
    /\ stream_map = [c \in Conns |-> [k \in {} |-> 0]]
    /\ pc = [c \in Conns |-> "select"]
    /\ write_buf = [c \in Conns |-> EmptyBuf]
    /\ rd = [c \in Conns |-> "open"]
    /\ sent = [c \in Conns |-> <<>>]
    /\ why = [c \in Conns |-> "none"]
    /\ ignored = [c \in Conns |-> {}]
    /\ listening = TRUE

Init ==
    /\ InitBroker(ConfiguredUsers)
    /\ call = NoCall

\* Every variable but call.
broker_vars == << users, subscribers, metrics, st, randbuf, access_ctx,
                 stream_map, pc, write_buf, rd, sent, why, ignored, listening >>

(***************************************************************************)
(* The broadcast channel (tokio::sync::broadcast) as the handler uses it:  *)
(* a sender keeps the last Capacity messages; a receiver keeps the         *)
(* position of the next message it will read.  subscribers[ch] is every    *)
(* message the sender of ch queued, so its length is the tail position.    *)
(* A queued message is its encoded bytes and, as history, the connection   *)
(* that published it and the frame that connection sent.                   *)
(***************************************************************************)
EmptyMap == [k \in {} |-> 0]

MapPut(m, k, x) == [j \in DOMAIN m \cup {k} |-> IF j = k THEN x ELSE m[j]]
MapRemove(m, k) == [j \in DOMAIN m \ {k} |-> m[j]]

\* The connections that hold a receiver of ch.
Receivers(ch) == { c \in Conns : ch \in DOMAIN stream_map[c] }

\* send queueing the message also when the sender has no receiver.
send_keeps(queue, rx_cnt, msg) == Append(queue, msg)

\* send without the tail lock: a message that races with the last one queued
\* by another connection takes the slot before it.
send_races(queue, rx_cnt, msg) ==
    IF rx_cnt = 0 THEN queue
    ELSE IF queue /= <<>> /\ queue[Len(queue)].by /= msg.by
         THEN SubSeq(queue, 1, Len(queue) - 1) \o <<msg, queue[Len(queue)]>>
         ELSE Append(queue, msg)

\* Sender::send: with no receiver the message is handed back (Err) and not
\* queued; otherwise it is queued at the tail.
send(queue, rx_cnt, msg) == IF rx_cnt = 0 THEN queue ELSE Append(queue, msg)

\* A receiver at position next has something to yield.
Ready(c, ch) ==
    /\ ch \in DOMAIN stream_map[c]
    /\ stream_map[c][ch] < Len(subscribers[ch])

\* recv reporting lag, and dropping what is pending, as soon as the channel
\* is full.
recv_drop_when_full(queue, next) ==
    IF Len(queue) - next >= Capacity
    THEN [kind |-> "Lagged", n |-> Len(queue) - next, next |-> Len(queue),
          msg |-> <<>>]
    ELSE [kind |-> "Ok", n |-> 0, next |-> next + 1, msg |-> queue[next + 1].bytes]

\* recv jumping past the kept messages as well when it reports lag.
recv_jump_to_tail(queue, next) ==
    IF Len(queue) - next > Capacity
    THEN [kind |-> "Lagged", n |-> Len(queue) - Capacity - next,
          next |-> Len(queue), msg |-> <<>>]
    ELSE [kind |-> "Ok", n |-> 0, next |-> next + 1, msg |-> queue[next + 1].bytes]

\* Receiver::recv when ready: Lagged(n) and a jump to the oldest kept
\* message if more than Capacity are pending, else the next message.
recv(queue, next) ==
    IF Len(queue) - next > Capacity
    THEN [kind |-> "Lagged", n |-> Len(queue) - Capacity - next,
          next |-> Len(queue) - Capacity, msg |-> <<>>]
    ELSE [kind |-> "Ok", n |-> 0, next |-> next + 1, msg |-> queue[next + 1].bytes]

\* Terminate closing the channels of the connection: the receivers that
\* other connections hold on them are dropped too.
Terminate_closes_channels(c, cause) ==
    /\ st' = [st EXCEPT ![c] = "Terminated"]
    /\ why' = [why EXCEPT ![c] = cause]
    /\ stream_map' =
          [d \in Conns |->
              IF d = c THEN EmptyMap
              ELSE [ch \in (DOMAIN stream_map[d]) \ (DOMAIN stream_map[c]) |->
                       stream_map[d][ch]]]

\* The handler returns: the stream map (its receivers) is dropped.
Terminate(c, cause) ==
    /\ st' = [st EXCEPT ![c] = "Terminated"]
    /\ why' = [why EXCEPT ![c] = cause]
    /\ stream_map' = [stream_map EXCEPT ![c] = EmptyMap]

(***************************************************************************)
(* handle_connection: entry.                                               *)
(***************************************************************************)
\* The listener accepts connections one after the other.
NextToAccept(c) ==
    /\ listening
    /\ st[c] = "Idle"
    /\ \A d \in Conns : d < c => st[d] /= "Idle"

\* Accept sending a nonce one byte short of the one it keeps.
Accept_short_nonce(c) ==
    /\ NextToAccept(c)
    /\ randbuf' = [randbuf EXCEPT ![c] = Nonce(c)]
    /\ sent' = [sent EXCEPT ![c] =
           <<[bytes |-> encode_to_bytes(InfoF(BROKER_NAME, Tail(Nonce(c)))).v,
              items |-> <<>>]>>]
    /\ st' = [st EXCEPT ![c] = "AwaitAuth"]
    /\ UNCHANGED << call, listening, ignored, users, subscribers, metrics, access_ctx,
                    stream_map, pc, write_buf, rd, why >>

\* Lines 312-332 on the success path: the nonce is read and Info is written.
Accept(c) ==
    /\ NextToAccept(c)
    /\ randbuf' = [randbuf EXCEPT ![c] = Nonce(c)]
    /\ sent' = [sent EXCEPT ![c] =
           <<[bytes |-> encode_to_bytes(InfoF(BROKER_NAME, Nonce(c))).v,
              items |-> <<>>]>>]
    /\ st' = [st EXCEPT ![c] = "AwaitAuth"]
    /\ UNCHANGED << call, listening, ignored, users, subscribers, metrics, access_ctx, stream_map, pc,
                    write_buf, rd, why >>

\* Lines 317-332 on the failure paths: /dev/urandom cannot be read (nothing
\* is sent), or writing Info fails; and lines 220-223: the TLS handshake
\* fails and the spawned task ends without calling handle_connection.
AcceptFail(c) ==
    /\ NextToAccept(c)
    /\ \/ UNCHANGED randbuf /\ Terminate(c, "urandom")
       \/ UNCHANGED randbuf /\ Terminate(c, "tls")
       \/ /\ randbuf' = [randbuf EXCEPT ![c] = Nonce(c)]
          /\ Terminate(c, "write")
    /\ UNCHANGED << call, listening, ignored, users, subscribers, metrics, access_ctx, pc, write_buf, rd,
                    sent >>

\* The first frames that are not Auth, and the two ends of a frame stream.
ParseError == [tag |-> "ParseError"]
Eof == [tag |-> "Eof"]
FirstOtherInputs ==
    { PublishF(IdW, ChBad, <<1>>), SubscribeF(IdW, ChBad), UnsubscribeF(IdW, ChBad),
      ErrorF(<<>>), InfoF(BROKER_NAME, <<>>), ParseError, Eof }

\* OnAuth checking the proof against the nonce of any connection.
OnAuth_any_nonce(c, f) ==
    LET ident_str == from_utf8_lossy(f.ident)
        rs == { authenticate(users, ident_str, f.secret_hash, randbuf[d]) :
                  d \in Conns }
        r == IF \E x \in rs : x.some THEN CHOOSE x \in rs : x.some ELSE None IN
    /\ st[c] = "AwaitAuth"
    /\ IF r.some
       THEN /\ metrics' = [metrics EXCEPT !.auth_success = @ + 1]
            /\ access_ctx' = [access_ctx EXCEPT ![c] = r]
            /\ st' = [st EXCEPT ![c] = "Serving"]
            /\ UNCHANGED << why, stream_map >>
       ELSE /\ metrics' = [metrics EXCEPT !.auth_fail = @ + 1]
            /\ Terminate(c, "auth_fail")
            /\ UNCHANGED access_ctx
    /\ UNCHANGED << call, listening, ignored, users, subscribers, randbuf, pc, write_buf, rd,
                    sent >>

\* "unauthorized", the message of the Error frame of tests/unauth.rs.
UNAUTHORIZED == <<117, 110, 97, 117, 116, 104, 111, 114, 105, 122, 101, 100>>

\* What is written for the frame item alone.
Reply(item) == [bytes |-> encode_to_bytes(item).v, items |-> <<>>]

\* OnAuth acknowledging a successful authentication with an Info frame.
OnAuth_acks(c, f) ==
    LET ident_str == from_utf8_lossy(f.ident)
        r == authenticate(users, ident_str, f.secret_hash, randbuf[c]) IN
    /\ st[c] = "AwaitAuth"
    /\ IF r.some
       THEN /\ metrics' = [metrics EXCEPT !.auth_success = @ + 1]
            /\ access_ctx' = [access_ctx EXCEPT ![c] = r]
            /\ st' = [st EXCEPT ![c] = "Serving"]
            /\ sent' = [sent EXCEPT ![c] = Append(@, Reply(InfoF(BROKER_NAME, <<>>)))]
            /\ UNCHANGED << why, stream_map >>
       ELSE /\ metrics' = [metrics EXCEPT !.auth_fail = @ + 1]
            /\ Terminate(c, "auth_fail")
            /\ UNCHANGED << access_ctx, sent >>
    /\ UNCHANGED << call, listening, ignored, users, subscribers, randbuf, pc, write_buf, rd >>

\* Lines 335-347: the first frame is the Auth frame f; the authenticator
\* decides.
OnAuth(c, f) ==
    LET ident_str == from_utf8_lossy(f.ident)
        r == authenticate(users, ident_str, f.secret_hash, randbuf[c]) IN
    /\ st[c] = "AwaitAuth"
    /\ IF r.some
       THEN /\ metrics' = [metrics EXCEPT !.auth_success = @ + 1]
            /\ access_ctx' = [access_ctx EXCEPT ![c] = r]
            /\ st' = [st EXCEPT ![c] = "Serving"]
            /\ UNCHANGED << why, stream_map >>
       ELSE /\ metrics' = [metrics EXCEPT !.auth_fail = @ + 1]
            /\ Terminate(c, "auth_fail")
            /\ UNCHANGED access_ctx
    /\ UNCHANGED << call, listening, ignored, users, subscribers, randbuf, pc, write_buf, rd, sent >>

RecvFirstAuth(c) == \E f \in FirstAuthFrames : OnAuth(c, f)

\* OnNotAuth registering the channel of a Subscribe frame before returning.
OnNotAuth_registers(c, f) ==
    /\ st[c] = "AwaitAuth"
    /\ Terminate(c, "not_auth")
    /\ subscribers' = IF f.tag = "Subscribe"
                      THEN MapPut(subscribers, from_utf8_lossy(f.channel), <<>>)
                      ELSE subscribers
    /\ UNCHANGED << call, listening, ignored, users, metrics, randbuf, access_ctx, pc,
                    write_buf, rd, sent >>

\* OnNotAuth answering a Subscribe with an Error frame before returning.
OnNotAuth_sends_error(c, f) ==
    /\ st[c] = "AwaitAuth"
    /\ Terminate(c, "not_auth")
    /\ sent' = IF f.tag = "Subscribe"
               THEN [sent EXCEPT ![c] = Append(@, Reply(ErrorF(UNAUTHORIZED)))]
               ELSE sent
    /\ UNCHANGED << call, listening, ignored, users, subscribers, metrics, randbuf, access_ctx,
                    pc, write_buf, rd >>

\* Lines 336, 348-350: anything else first (another frame, a frame that
\* does not parse, the end of the stream) returns.
OnNotAuth(c, f) ==
    /\ st[c] = "AwaitAuth"
    /\ Terminate(c, "not_auth")
    /\ UNCHANGED << call, listening, ignored, users, subscribers, metrics, randbuf, access_ctx, pc,
                    write_buf, rd, sent >>

RecvFirstOther(c) == \E f \in FirstOtherInputs : OnNotAuth(c, f)

(***************************************************************************)
(* handle_connection: the serving loop, inbound branch (lines 385-410).    *)
(***************************************************************************)
\* The frames a peer may send once it is Serving.  The ident of Subscribe
\* and Unsubscribe is not read by the handler.  Publishers number their
\* payloads, so that no two messages carry the same bytes, and claim to be
\* "w".
SubscribeFrames == { SubscribeF(IdX, ch) : ch \in WireChannels }
UnsubscribeFrames == { UnsubscribeF(IdX, ch) : ch \in WireChannels }
PublishFrames ==
    { PublishF(IdW, ch, <<metrics.published + 1>>) : ch \in WireChannels }
OtherFrames == { ErrorF(<<1>>), InfoF(BROKER_NAME, <<>>), AuthF(IdW, <<>>) }

\* select! polls the frame stream: the handler is at the top of the loop
\* and the stream has not ended.
CanRead(c) ==
    /\ st[c] = "Serving"
    /\ pc[c] = "select"
    /\ rd[c] = "open"

\* OnSubscribe taking a new receiver also when the connection holds one.
OnSubscribe_again(c, f) ==
    LET chan_str == from_utf8_lossy(f.channel) IN
    /\ CanRead(c)
    /\ IF can_subscribe(access_ctx[c].v, chan_str)
       THEN LET b_tx == IF chan_str \in DOMAIN subscribers
                        THEN subscribers[chan_str] ELSE <<>> IN
            /\ subscribers' = MapPut(subscribers, chan_str, b_tx)
            /\ stream_map' = [stream_map EXCEPT ![c] = MapPut(@, chan_str, Len(b_tx))]
       ELSE UNCHANGED << subscribers, stream_map >>
    /\ ignored' = IF can_subscribe(access_ctx[c].v, chan_str) THEN ignored
                  ELSE [ignored EXCEPT ![c] = @ \cup {<<"Subscribe", chan_str>>}]
    /\ UNCHANGED << call, listening, users, metrics, st, randbuf, access_ctx, pc, write_buf, rd,
                    sent, why >>

\* Lines 387-394.
OnSubscribe(c, f) ==
    LET chan_str == from_utf8_lossy(f.channel) IN
    /\ CanRead(c)
    /\ IF can_subscribe(access_ctx[c].v, chan_str) /\ chan_str \notin DOMAIN stream_map[c]
       THEN LET b_tx == IF chan_str \in DOMAIN subscribers
                        THEN subscribers[chan_str] ELSE <<>> IN
            /\ subscribers' = MapPut(subscribers, chan_str, b_tx)
            /\ stream_map' = [stream_map EXCEPT ![c] = MapPut(@, chan_str, Len(b_tx))]
       ELSE UNCHANGED << subscribers, stream_map >>
    /\ ignored' = IF can_subscribe(access_ctx[c].v, chan_str) THEN ignored
                  ELSE [ignored EXCEPT ![c] = @ \cup {<<"Subscribe", chan_str>>}]
    /\ UNCHANGED << call, listening, users, metrics, st, randbuf, access_ctx, pc, write_buf, rd,
                    sent, why >>

RecvSubscribe(c) == \E f \in SubscribeFrames : OnSubscribe(c, f)

\* OnUnsubscribe dropping every receiver of the connection.
OnUnsubscribe_all(c, f) ==
    /\ CanRead(c)
    /\ stream_map' = [stream_map EXCEPT ![c] = EmptyMap]
    /\ UNCHANGED << call, listening, ignored, users, subscribers, metrics, st, randbuf, access_ctx, pc,
                    write_buf, rd, sent, why >>

\* OnUnsubscribe removing the registry entry of a channel that is left
\* without receivers.
OnUnsubscribe_gc(c, f) ==
    LET chan_str == from_utf8_lossy(f.channel) IN
    /\ CanRead(c)
    /\ stream_map' = [stream_map EXCEPT ![c] = MapRemove(@, chan_str)]
    /\ subscribers' = IF Receivers(chan_str) \subseteq {c}
                      THEN MapRemove(subscribers, chan_str)
                      ELSE subscribers
    /\ UNCHANGED << call, listening, ignored, users, metrics, st, randbuf, access_ctx, pc,
                    write_buf, rd, sent, why >>

\* Lines 395-397.
OnUnsubscribe(c, f) ==
    LET chan_str == from_utf8_lossy(f.channel) IN
    /\ CanRead(c)
    /\ stream_map' = [stream_map EXCEPT ![c] = MapRemove(@, chan_str)]
    /\ UNCHANGED << call, listening, ignored, users, subscribers, metrics, st, randbuf, access_ctx, pc,
                    write_buf, rd, sent, why >>

RecvUnsubscribe(c) == \E f \in UnsubscribeFrames : OnUnsubscribe(c, f)

\* Outbound keeping the ident of the inbound frame.
Outbound_wire_ident(ctx, f) == PublishF(f.ident, f.channel, f.payload)

\* Outbound naming the channel by its registry key.
Outbound_chan_str(ctx, f) ==
    PublishF(ctx.ident, from_utf8_lossy(f.channel), f.payload)

\* The frame the broker forwards for the inbound Publish f (line 403).
Outbound(ctx, f) == PublishF(ctx.ident, f.channel, f.payload)

\* OnPublish counting the frame before it consults the access context.
OnPublish_counts_all(c, f) ==
    LET ctx == access_ctx[c].v
        chan_str == from_utf8_lossy(f.channel) IN
    /\ CanRead(c)
    /\ metrics.published < MaxPub
    /\ metrics' = [metrics EXCEPT !.published = @ + 1]
    /\ IF can_publish(ctx, chan_str)
       THEN LET b == encode_to_bytes(Outbound(ctx, f)) IN
            /\ subscribers' =
                  IF chan_str \in DOMAIN subscribers /\ b.ok
                  THEN [subscribers EXCEPT ![chan_str] =
                           send(@, Cardinality(Receivers(chan_str)),
                                [bytes |-> b.v, by |-> c, wire |-> f])]
                  ELSE subscribers
            /\ UNCHANGED ignored
       ELSE /\ ignored' = [ignored EXCEPT ![c] = @ \cup {<<"Publish", chan_str>>}]
            /\ UNCHANGED subscribers
    /\ UNCHANGED << call, listening, users, st, randbuf, access_ctx, stream_map, pc,
                    write_buf, rd, sent, why >>

\* OnPublish waiting while a receiver of the channel has a full queue.
OnPublish_waits(c, f) ==
    LET ctx == access_ctx[c].v
        chan_str == from_utf8_lossy(f.channel) IN
    /\ CanRead(c)
    /\ IF can_publish(ctx, chan_str)
       THEN LET b == encode_to_bytes(Outbound(ctx, f)) IN
            /\ metrics.published < MaxPub
            /\ \A s \in Receivers(chan_str) :
                  Len(subscribers[chan_str]) - stream_map[s][chan_str] < Capacity
            /\ metrics' = [metrics EXCEPT !.published = @ + 1]
            /\ subscribers' =
                  IF chan_str \in DOMAIN subscribers /\ b.ok
                  THEN [subscribers EXCEPT ![chan_str] =
                           send(@, Cardinality(Receivers(chan_str)),
                                [bytes |-> b.v, by |-> c, wire |-> f])]
                  ELSE subscribers
            /\ UNCHANGED ignored
       ELSE /\ ignored' = [ignored EXCEPT ![c] = @ \cup {<<"Publish", chan_str>>}]
            /\ UNCHANGED << metrics, subscribers >>
    /\ UNCHANGED << call, listening, users, st, randbuf, access_ctx, stream_map, pc,
                    write_buf, rd, sent, why >>

\* Lines 398-407.
OnPublish(c, f) ==
    LET ctx == access_ctx[c].v
        chan_str == from_utf8_lossy(f.channel) IN
    /\ CanRead(c)
    /\ IF can_publish(ctx, chan_str)
       THEN LET b == encode_to_bytes(Outbound(ctx, f)) IN
            /\ metrics.published < MaxPub
            /\ metrics' = [metrics EXCEPT !.published = @ + 1]
            /\ subscribers' =
                  IF chan_str \in DOMAIN subscribers /\ b.ok
                  THEN [subscribers EXCEPT ![chan_str] =
                           send(@, Cardinality(Receivers(chan_str)),
                                [bytes |-> b.v, by |-> c, wire |-> f])]
                  ELSE subscribers
            /\ UNCHANGED ignored
       ELSE /\ ignored' = [ignored EXCEPT ![c] = @ \cup {<<"Publish", chan_str>>}]
            /\ UNCHANGED << metrics, subscribers >>
    /\ UNCHANGED << call, listening, users, st, randbuf, access_ctx, stream_map, pc, write_buf,
                    rd, sent, why >>

RecvPublish(c) == \E f \in PublishFrames : OnPublish(c, f)

\* OnOther answering the frame with an Error frame.
OnOther_replies(c, f) ==
    /\ CanRead(c)
    /\ sent' = [sent EXCEPT ![c] = Append(@, Reply(ErrorF(UNAUTHORIZED)))]
    /\ UNCHANGED << call, listening, ignored, users, subscribers, metrics, st, randbuf,
                    access_ctx, stream_map, pc, write_buf, rd, why >>

\* OnOther authenticating again on an Auth frame and binding the result.
OnOther_reauth(c, f) ==
    /\ CanRead(c)
    /\ access_ctx' =
          IF f.tag = "Auth"
          THEN [access_ctx EXCEPT ![c] =
                   authenticate(users, from_utf8_lossy(f.ident), f.secret_hash, randbuf[c])]
          ELSE access_ctx
    /\ UNCHANGED << call, listening, ignored, users, subscribers, metrics, st, randbuf,
                    stream_map, pc, write_buf, rd, sent, why >>

\* Line 408: Error, Info and Auth frames are ignored.
OnOther(c, f) ==
    /\ CanRead(c)
    /\ UNCHANGED vars

RecvOther(c) == \E f \in OtherFrames : OnOther(c, f)

\* Lines 385, 411: the frame stream yields an error or ends, so the inbound
\* branch is disabled; with an empty stream map the outbound branch is
\* disabled too and the else branch breaks, otherwise select! waits for
\* the outbound branch.  The peer sends nothing after the bytes that did
\* not parse, so later polls of the frame stream yield no frame either.
OnEnd(c, f) ==
    /\ CanRead(c)
    /\ rd' = [rd EXCEPT ![c] = "end"]
    /\ IF DOMAIN stream_map[c] = {}
       THEN Terminate(c, "closed")
       ELSE UNCHANGED << st, why, stream_map >>
    /\ UNCHANGED << call, listening, ignored, users, subscribers, metrics, randbuf, access_ctx, pc,
                    write_buf, sent >>

RecvEnd(c) == \E f \in {ParseError, Eof} : OnEnd(c, f)

(***************************************************************************)
(* handle_connection: the serving loop, outbound branch (lines 357-384).   *)
(***************************************************************************)
\* Put placing the message in front of the batch.
Put_front(buf, ch, r) ==
    [bytes |-> r.msg \o buf.bytes, items |-> <<<<ch, r.next>>>> \o buf.items]

\* write_buf.put(msg) for the message r read from ch.
Put(buf, ch, r) ==
    [bytes |-> buf.bytes \o r.msg, items |-> Append(buf.items, <<ch, r.next>>)]

\* OutboundFirst ending the handler when the first item is Lagged.
OutboundFirst_lag_closes(c) ==
    /\ st[c] = "Serving"
    /\ pc[c] = "select"
    /\ \E ch \in DOMAIN stream_map[c] :
        /\ Ready(c, ch)
        /\ LET r == recv(subscribers[ch], stream_map[c][ch]) IN
           IF r.kind = "Ok"
           THEN /\ stream_map' = [stream_map EXCEPT ![c][ch] = r.next]
                /\ write_buf' = [write_buf EXCEPT ![c] = Put(@, ch, r)]
                /\ metrics' = [metrics EXCEPT !.delivered = @ + 1]
                /\ pc' = [pc EXCEPT ![c] = "drain"]
                /\ UNCHANGED << st, why >>
           ELSE /\ metrics' = [metrics EXCEPT !.lagged = @ + r.n]
                /\ Terminate(c, "lagged")
                /\ UNCHANGED << write_buf, pc >>
    /\ UNCHANGED << call, listening, ignored, users, subscribers, randbuf, access_ctx, rd,
                    sent >>

\* Lines 357-362 and 380-382: stream_map.next() yields the first item.
OutboundFirst(c) ==
    /\ st[c] = "Serving"
    /\ pc[c] = "select"
    /\ \E ch \in DOMAIN stream_map[c] :
        /\ Ready(c, ch)
        /\ LET r == recv(subscribers[ch], stream_map[c][ch]) IN
           /\ stream_map' = [stream_map EXCEPT ![c][ch] = r.next]
           /\ IF r.kind = "Ok"
              THEN /\ write_buf' = [write_buf EXCEPT ![c] = Put(@, ch, r)]
                   /\ metrics' = [metrics EXCEPT !.delivered = @ + 1]
                   /\ pc' = [pc EXCEPT ![c] = "drain"]
              ELSE /\ metrics' = [metrics EXCEPT !.lagged = @ + r.n]
                   /\ UNCHANGED << write_buf, pc >>
    /\ UNCHANGED << call, listening, ignored, users, subscribers, st, randbuf, access_ctx, rd, sent, why >>

\* DrainPoll going on polling when the batch has reached BATCH_LIMIT.
DrainPoll_unbounded(c) ==
    /\ st[c] = "Serving"
    /\ pc[c] = "drain"
    /\ \E ch \in DOMAIN stream_map[c] :
        /\ Ready(c, ch)
        /\ LET r == recv(subscribers[ch], stream_map[c][ch]) IN
           /\ r.kind = "Ok"
           /\ stream_map' = [stream_map EXCEPT ![c][ch] = r.next]
           /\ write_buf' = [write_buf EXCEPT ![c] = Put(@, ch, r)]
           /\ metrics' = [metrics EXCEPT !.delivered = @ + 1]
    /\ UNCHANGED << call, listening, ignored, users, subscribers, st, randbuf, access_ctx, pc,
                    rd, sent, why >>

\* Lines 366-372: a further poll yields a message.
DrainPoll(c) ==
    /\ st[c] = "Serving"
    /\ pc[c] = "drain"
    /\ Len(write_buf[c].items) < BATCH_LIMIT
    /\ \E ch \in DOMAIN stream_map[c] :
        /\ Ready(c, ch)
        /\ LET r == recv(subscribers[ch], stream_map[c][ch]) IN
           /\ r.kind = "Ok"
           /\ stream_map' = [stream_map EXCEPT ![c][ch] = r.next]
           /\ write_buf' = [write_buf EXCEPT ![c] = Put(@, ch, r)]
           /\ metrics' = [metrics EXCEPT !.delivered = @ + 1]
    /\ UNCHANGED << call, listening, ignored, users, subscribers, st, randbuf, access_ctx, pc, rd, sent,
                    why >>

\* WriteAll clearing the batch without writing it.
WriteAll_clear_only(c, next_map) ==
    \/ /\ write_buf' = [write_buf EXCEPT ![c] = EmptyBuf]
       /\ pc' = [pc EXCEPT ![c] = "select"]
       /\ stream_map' = [stream_map EXCEPT ![c] = next_map]
       /\ UNCHANGED << sent, st, why >>
    \/ /\ Terminate(c, "write")
       /\ UNCHANGED << sent, write_buf, pc >>

\* Lines 377-378: write_all of the batch, then clear; a write error breaks
\* out of the loop and the handler returns.  next_map is the stream map
\* the polls of this wakeup left.
WriteAll(c, next_map) ==
    \/ /\ sent' = [sent EXCEPT ![c] = Append(@, write_buf[c])]
       /\ write_buf' = [write_buf EXCEPT ![c] = EmptyBuf]
       /\ pc' = [pc EXCEPT ![c] = "select"]
       /\ stream_map' = [stream_map EXCEPT ![c] = next_map]
       /\ UNCHANGED << st, why >>
    \/ /\ Terminate(c, "write")
       /\ UNCHANGED << sent, write_buf, pc >>

\* Lines 366, 373, 377: the batch is full or a poll finds nothing ready;
\* the batch is written.
DrainWrite(c) ==
    /\ st[c] = "Serving"
    /\ pc[c] = "drain"
    /\ \/ Len(write_buf[c].items) >= BATCH_LIMIT
       \/ \A ch \in DOMAIN stream_map[c] : ~Ready(c, ch)
    /\ WriteAll(c, stream_map[c])
    /\ UNCHANGED << call, listening, ignored, users, subscribers, metrics, randbuf, access_ctx, rd >>

\* Lines 367-373, 377: a further poll yields Lagged(n): the `_` arm takes
\* it and breaks; the batch is written.
DrainLagged(c) ==
    /\ st[c] = "Serving"
    /\ pc[c] = "drain"
    /\ Len(write_buf[c].items) < BATCH_LIMIT
    /\ \E ch \in DOMAIN stream_map[c] :
        /\ Ready(c, ch)
        /\ LET r == recv(subscribers[ch], stream_map[c][ch]) IN
           /\ r.kind = "Lagged"
           /\ WriteAll(c, [stream_map[c] EXCEPT ![ch] = r.next])
    /\ UNCHANGED << call, listening, ignored, users, subscribers, metrics, randbuf, access_ctx, rd >>

(***************************************************************************)
(* The broker.                                                             *)
(***************************************************************************)
Next ==
    \E c \in Conns :
        \/ Accept(c)
        \/ AcceptFail(c)
        \/ RecvFirstAuth(c)
        \/ RecvFirstOther(c)
        \/ RecvSubscribe(c)
        \/ RecvUnsubscribe(c)
        \/ RecvPublish(c)
        \/ RecvOther(c)
        \/ RecvEnd(c)
        \/ OutboundFirst(c)
        \/ DrainPoll(c)
        \/ DrainWrite(c)
        \/ DrainLagged(c)

Spec == Init /\ [][Next]_vars

\* The outbound branch of connection c: a step of its wakeup.
OutboundStep(c) ==
    OutboundFirst(c) \/ DrainPoll(c) \/ DrainWrite(c) \/ DrainLagged(c)

\* The broker with peers that answer the handshake with an Auth frame and
\* then keep their side of the connection open.
NextOpen ==
    \E c \in Conns :
        \/ Accept(c)
        \/ RecvFirstAuth(c)
        \/ RecvSubscribe(c)
        \/ RecvUnsubscribe(c)
        \/ RecvPublish(c)
        \/ OutboundFirst(c)
        \/ DrainPoll(c)
        \/ DrainWrite(c)
        \/ DrainLagged(c)

\* The runtime schedules every handler task, and select! picks among its
\* ready branches at random: a handler whose stream map stays ready takes
\* its outbound branch, and a wakeup that has begun runs to its write.
FairSpec ==
    /\ Init
    /\ [][NextOpen]_vars
    /\ \A c \in Conns : WF_vars(OutboundStep(c))

(***************************************************************************)
(* What a peer has been sent, read back from the history.                  *)
(***************************************************************************)
\* The list holds the entry x.
Contains(list, x) == \E i \in 1..Len(list) : list[i] = x

\* The list holds "*" or the channel.
Listed(list, channel) == Contains(list, STAR) \/ Contains(list, channel)

\* The batches written to c after its Info frame.
Batches(c) == SubSeq(sent[c], 2, Len(sent[c]))

\* The frames a peer decodes from a batch.
FramesOf(w) == DecodeAll(w.bytes)

RECURSIVE Chunks(_)
\* The bytes of a batch cut at the frame lengths.
Chunks(b) ==
    IF Len(b) < 4 THEN <<>>
    ELSE LET n == get_u32(b) IN
         IF n < 5 \/ n > Len(b) THEN <<>>
         ELSE <<SubSeq(b, 1, n)>> \o Chunks(SubSeq(b, n + 1, Len(b)))

\* The queued message an item of a batch was read from.
Origin(item) == subscribers[item[1]][item[2]]

\* The <<batch, index>> places of c's delivered frames.
Deliveries(c) ==
    { <<j, k>> \in (1..Len(Batches(c))) \X (1..BATCH_LIMIT) :
        k <= Len(Batches(c)[j].items) }

\* Every batch decodes to as many Publish frames as messages were put in it.
BatchesDecode ==
    \A c \in Conns : \A j \in 1..Len(Batches(c)) :
        LET w == Batches(c)[j] IN
        /\ Len(FramesOf(w)) = Len(w.items)
        /\ Len(Chunks(w.bytes)) = Len(w.items)
        /\ \A k \in 1..Len(w.items) : FramesOf(w)[k].tag = "Publish"

\* A batch written to c holds message i of the channel keyed ch.
Written(c, ch, i) ==
    \E j \in 2..Len(sent[c]) : \E k \in 1..Len(sent[c][j].items) :
        sent[c][j].items[k] = <<ch, i>>

\* Connection c was sent message i of the channel keyed ch: a batch written
\* to it holds, at the message's place, the Publish frame that carries the
\* publisher's payload.
Delivered(c, ch, i) ==
    \E d \in Deliveries(c) :
        LET w == Batches(c)[d[1]] IN
        /\ w.items[d[2]] = <<ch, i>>
        /\ d[2] <= Len(FramesOf(w))
        /\ FramesOf(w)[d[2]].tag = "Publish"
        /\ FramesOf(w)[d[2]].payload = subscribers[ch][i].wire.payload

\* No message is written to a connection twice.
AtMostOnce ==
    \A c \in Conns : \A d1 \in Deliveries(c), d2 \in Deliveries(c) :
        Batches(c)[d1[1]].items[d1[2]] = Batches(c)[d2[1]].items[d2[2]] => d1 = d2

\* What is written is delivered: the bytes of every batch are the frames
\* of its messages.
WrittenIsDelivered ==
    \A c \in Conns : \A ch \in DOMAIN subscribers :
        \A i \in 1..Len(subscribers[ch]) :
            Written(c, ch, i) => Delivered(c, ch, i)

(***************************************************************************)
(* Fan-out.                                                                *)
(***************************************************************************)
\* The keys of the registry.
ChanStrs == { from_utf8_lossy(ch) : ch \in WireChannels }

\* Message i of the channel keyed ch was queued while c held the receiver
\* it still holds, and c has not read it yet.
Pending(c, ch, i) ==
    /\ ch \in DOMAIN stream_map[c]
    /\ i <= Len(subscribers[ch])
    /\ stream_map[c][ch] < i

\* More messages wait for c's receiver of ch than the channel keeps.
Overflowed(c, ch) ==
    /\ ch \in DOMAIN stream_map[c]
    /\ Len(subscribers[ch]) - stream_map[c][ch] > Capacity

\* A write to c's socket failed.
WriteFailed(c) == why[c] = "write"

C2_DeniedPublishSilent ==
    /\ [](\A ch \in DOMAIN subscribers : \A i \in 1..Len(subscribers[ch]) :
            LET m == subscribers[ch][i] IN
            /\ access_ctx[m.by].some
            /\ from_utf8_lossy(m.wire.channel) = ch
            /\ Listed(access_ctx[m.by].v.pub_channels, ch))
    /\ [](\A c \in Conns : \A x \in ignored[c] :
            x[1] = "Publish" => ~Listed(access_ctx[c].v.pub_channels, x[2]))
    /\ [][\A c \in Conns :
            (\E x \in ignored'[c] \ ignored[c] : x[1] = "Publish") =>
                /\ st[c] = "Serving" /\ st' = st
                /\ subscribers' = subscribers
                /\ stream_map' = stream_map
                /\ write_buf' = write_buf
                /\ sent' = sent
                /\ metrics' = metrics]_vars

\* A user without the right to publish on U+FFFD has published there while
\* another connection was subscribed to it: the publisher is Serving, the
\* channel's queue is empty and the subscriber was sent Info only.
C2_Witness ==
    \E c \in Conns, s \in Conns :
        /\ c /= s
        /\ <<"Publish", REPLACEMENT>> \in ignored[c]
        /\ st[c] = "Serving"
        /\ REPLACEMENT \in DOMAIN stream_map[s]
        /\ subscribers[REPLACEMENT] = <<>>
        /\ Len(sent[s]) = 1

\* C3: a Subscribe to a channel the connection's access context does not
\* list for subscribing is dropped: the connection stays Serving, gets no
\* receiver and the registry gets no entry in that step, and at no time does
\* a connection hold a receiver of, or get a Publish frame for, a channel
\* its context does not list.
C3_DeniedSubscribeSilent ==
    /\ [](\A c \in Conns :
            /\ \A ch \in DOMAIN stream_map[c] :
                   access_ctx[c].some /\ Listed(access_ctx[c].v.sub_channels, ch)
            /\ \A j \in 1..Len(Batches(c)) : \A k \in 1..Len(FramesOf(Batches(c)[j])) :
                   LET fr == FramesOf(Batches(c)[j])[k] IN
                   fr.tag = "Publish" =>
                       Listed(access_ctx[c].v.sub_channels, from_utf8_lossy(fr.channel))
            /\ \A x \in ignored[c] :
                   x[1] = "Subscribe" => ~Listed(access_ctx[c].v.sub_channels, x[2]))
    /\ [][\A c \in Conns :
            (\E x \in ignored'[c] \ ignored[c] : x[1] = "Subscribe") =>
                /\ st[c] = "Serving" /\ st' = st
                /\ stream_map' = stream_map
                /\ subscribers' = subscribers
                /\ write_buf' = write_buf
                /\ sent' = sent]_vars

\* A connection was refused a subscription to U+FFFD; a message published
\* there has been delivered to the other connection, and the refused one
\* is Serving and was sent Info only.
C3_Witness ==
    \E c \in Conns, s \in Conns :
        /\ <<"Subscribe", REPLACEMENT>> \in ignored[c]
        /\ st[c] = "Serving"
        /\ Len(sent[c]) = 1
        /\ REPLACEMENT \in DOMAIN subscribers
        /\ Delivered(s, REPLACEMENT, 1)

(***************************************************************************)
(* What the forwarded frame carries.                                       *)
(***************************************************************************)
\* C4: the ident of every delivered Publish frame is the ident of the access
\* context of the connection that published the message, a user of the
\* store, whatever ident the inbound frame carried.
C4_OutboundIdent ==
    /\ BatchesDecode
    /\ \A c \in Conns : \A d \in Deliveries(c) :
        LET w == Batches(c)[d[1]]
            o == Origin(w.items[d[2]]) IN
        /\ access_ctx[o.by].some
        /\ FramesOf(w)[d[2]].ident = access_ctx[o.by].v.ident
        /\ FramesOf(w)[d[2]].ident \in DOMAIN users

\* A subscriber was sent a frame with ident "u" for a message whose inbound
\* frame said "w".
C4_Witness ==
    \E c \in Conns : \E d \in Deliveries(c) :
        LET w == Batches(c)[d[1]] IN
        /\ FramesOf(w)[d[2]].ident = IdU
        /\ Origin(w.items[d[2]]).wire.ident = IdW

\* C5: every delivered Publish frame has the channel and the payload of the
\* inbound frame, byte for byte, and two connections that are sent the same
\* message are sent the same bytes.
C5_ChannelPayloadIdentical ==
    /\ BatchesDecode
    /\ \A c \in Conns : \A d \in Deliveries(c) :
        LET w == Batches(c)[d[1]]
            o == Origin(w.items[d[2]]) IN
        /\ FramesOf(w)[d[2]].channel = o.wire.channel
        /\ FramesOf(w)[d[2]].payload = o.wire.payload
        /\ \A c2 \in Conns : \A d2 \in Deliveries(c2) :
            LET w2 == Batches(c2)[d2[1]] IN
            w2.items[d2[2]] = w.items[d[2]] =>
                Chunks(w2.bytes)[d2[2]] = Chunks(w.bytes)[d[2]]

\* Two connections were sent the same message of the channel whose name on
\* the wire is the byte 255, and it reads 255 in what each was sent.
C5_Witness ==
    \E c \in Conns, c2 \in Conns :
        /\ c /= c2
        /\ Delivered(c, REPLACEMENT, 1)
        /\ Delivered(c2, REPLACEMENT, 1)
        /\ subscribers[REPLACEMENT][1].wire.channel = ChBad
        /\ FramesOf(Batches(c)[1])[1].channel = ChBad
        /\ FramesOf(Batches(c2)[1])[1].channel = ChBad

(***************************************************************************)
(* The handshake.                                                          *)
(***************************************************************************)
\* Connection c has queued a message.
HasPublished(c) ==
    \E ch \in DOMAIN subscribers : \E i \in 1..Len(subscribers[ch]) :
        subscribers[ch][i].by = c

\* C6: a first frame that is not Auth, or that does not parse, ends the
\* handler from AwaitAuth: that step changes no registry entry, no receiver,
\* no socket and no counter, and the connection has never been Serving, holds
\* no receiver, has queued nothing and was sent its Info frame only.
C6_NotAuthFirstTerminates ==
    /\ [](\A c \in Conns :
            /\ why[c] = "not_auth" =>
                /\ st[c] = "Terminated"
                /\ ~access_ctx[c].some
                /\ stream_map[c] = EmptyMap
                /\ ~HasPublished(c)
                /\ Len(sent[c]) = 1
            /\ (st[c] = "Serving" \/ stream_map[c] /= EmptyMap \/ HasPublished(c))
                  => access_ctx[c].some)
    /\ [][\A c \in Conns : \A f \in FirstOtherInputs :
            OnNotAuth(c, f) =>
                /\ st[c] = "AwaitAuth" /\ st'[c] = "Terminated"
                /\ subscribers' = subscribers
                /\ stream_map' = stream_map
                /\ write_buf' = write_buf
                /\ sent' = sent
                /\ metrics' = metrics
                /\ access_ctx' = access_ctx]_vars

\* A connection whose first frame was not Auth has ended while the other
\* connection is Serving with a subscription.
C6_Witness ==
    \E c \in Conns, s \in Conns :
        /\ why[c] = "not_auth"
        /\ st[s] = "Serving"
        /\ stream_map[s] /= EmptyMap

\* Every byte written to c, in order.
SentBytes(c) == Flatten([j \in 1..Len(sent[c]) |-> sent[c][j].bytes])

\* C7: a connection the handler waits on or serves was first sent exactly
\* one Info frame, named "hpfeeds-rs", with the 16-byte nonce of that
\* connection, and no Info frame after it; when the first frame is the Auth
\* frame connect_and_auth builds from what the broker sent, for a user of
\* the store and that user's secret, the connection becomes Serving with
\* that user's ident and allow-lists and auth_success grows by 1; auth_success
\* counts the connections that were authenticated.
C7_InfoThenHonestAuth ==
    /\ [](\A c \in Conns :
            (st[c] \in {"AwaitAuth", "Serving"} \/ sent[c] /= <<>>) =>
                LET d == decode(sent[c][1].bytes) IN
                /\ d.kind = "frame" /\ d.rest = <<>>
                /\ d.frame = InfoF(BROKER_NAME, randbuf[c])
                /\ Len(d.frame.rand) = NONCE_LEN
                /\ \A k \in 2..Len(DecodeAll(SentBytes(c))) :
                       DecodeAll(SentBytes(c))[k].tag /= "Info")
    /\ [](metrics.auth_success = Cardinality({ c \in Conns : access_ctx[c].some }))
    /\ [][\A c \in Conns : \A i \in DOMAIN users :
            LET a == connect_and_auth(SentBytes(c), i, users[i].secret) IN
            (st[c] = "AwaitAuth" /\ a.some /\ OnAuth(c, a.v)) =>
                /\ st'[c] = "Serving"
                /\ access_ctx'[c] =
                      Some([ident |-> i, pub_channels |-> users[i].pub_channels,
                            sub_channels |-> users[i].sub_channels])
                /\ metrics'.auth_success = metrics.auth_success + 1
                /\ metrics'.auth_fail = metrics.auth_fail]_vars

\* Both connections answered their own Info honestly, one as "u", one as
\* "w": both are Serving and auth_success is 2.
C7_Witness ==
    /\ metrics.auth_success = 2
    /\ \E c \in Conns, d \in Conns :
        /\ st[c] = "Serving" /\ access_ctx[c].v.ident = IdU
        /\ st[d] = "Serving" /\ access_ctx[d].v.ident = IdW

\* The authenticator has no reason to accept f on connection c: the store
\* has no user of that ident, or the proof is not the digest of this
\* connection's nonce followed by the user's secret.
Rejected(c, f) ==
    LET i == from_utf8_lossy(f.ident) IN
    \/ i \notin DOMAIN users
    \/ f.secret_hash /= Sha1(randbuf[c] \o users[i].secret)

\* C8: when the first frame is an Auth frame the authenticator rejects (no
\* such user, or a proof that does not answer this connection's nonce, such
\* as the proof made for another connection's nonce), auth_fail grows by 1
\* and the handler ends without the connection becoming Serving; no other
\* step changes auth_fail, which counts the connections ended that way.
C8_AuthFailCounted ==
    /\ [](/\ metrics.auth_fail = Cardinality({ c \in Conns : why[c] = "auth_fail" })
          /\ \A c \in Conns : why[c] = "auth_fail" =>
                st[c] = "Terminated" /\ ~access_ctx[c].some)
    /\ [][\A c \in Conns : \A f \in FirstAuthFrames :
            (OnAuth(c, f) /\ Rejected(c, f)) =>
                /\ metrics'.auth_fail = metrics.auth_fail + 1
                /\ metrics'.auth_success = metrics.auth_success
                /\ st'[c] = "Terminated"
                /\ access_ctx' = access_ctx
                /\ subscribers' = subscribers
                /\ sent' = sent]_vars
    /\ [][metrics'.auth_fail /= metrics.auth_fail =>
            \E c \in Conns : \E f \in FirstAuthFrames :
                st[c] = "AwaitAuth" /\ Rejected(c, f) /\ OnAuth(c, f)]_vars

\* The second connection was rejected and ended, auth_fail is 1, and the
\* first connection, whose nonce a replayed proof would answer, is Serving.
C8_Witness ==
    /\ why[2] = "auth_fail"
    /\ st[2] = "Terminated"
    /\ metrics.auth_fail = 1
    /\ st[1] = "Serving"

(***************************************************************************)
(* AccessContext::can_publish and can_subscribe as functions of their      *)
(* arguments: the contexts and channels are drawn at the start, each       *)
(* predicate is called once.                                               *)
(***************************************************************************)
\* "a*" and "b": a name that holds the wildcard character, a name in no list.
ChAStar == <<97, 42>>
ChB == <<98>>

MaxAclLen == 2

\* The allow-lists: every list of at most MaxAclLen of the names "a", "*", "a*".
AclLists ==
    UNION { [1..n -> {ChA, STAR, ChAStar}] : n \in 0..MaxAclLen }

AclCalls ==
    { [fn |-> "acl", ctx |-> AccessContext(IdU, p, q), channel |-> ch,
       can_pub |-> None, can_sub |-> None] :
        p \in AclLists, q \in AclLists, ch \in {ChA, STAR, ChAStar, ChB} }

InitAcl ==
    /\ InitBroker(ConfiguredUsers)
    /\ call \in AclCalls

CallCanPublish ==
    /\ call.fn = "acl"
    /\ ~call.can_pub.some
    /\ call' = [call EXCEPT !.can_pub = Some(can_publish(call.ctx, call.channel))]
    /\ UNCHANGED broker_vars

CallCanSubscribe ==
    /\ call.fn = "acl"
    /\ ~call.can_sub.some
    /\ call' = [call EXCEPT !.can_sub = Some(can_subscribe(call.ctx, call.channel))]
    /\ UNCHANGED broker_vars

NextAcl == CallCanPublish \/ CallCanSubscribe

SpecAcl == InitAcl /\ [][NextAcl]_vars

\* C10: can_publish(c) is true exactly when pub_channels holds "*" or c, and
\* can_subscribe(c) exactly when sub_channels holds "*" or c; neither answer
\* changes when the other list is replaced by any other list.
C10_AclIff ==
    call.fn = "acl" =>
        /\ call.can_pub.some =>
            /\ call.can_pub.v = Listed(call.ctx.pub_channels, call.channel)
            /\ \A l \in AclLists :
                 can_publish([call.ctx EXCEPT !.sub_channels = l], call.channel)
                    = call.can_pub.v
        /\ call.can_sub.some =>
            /\ call.can_sub.v = Listed(call.ctx.sub_channels, call.channel)
            /\ \A l \in AclLists :
                 can_subscribe([call.ctx EXCEPT !.pub_channels = l], call.channel)
                    = call.can_sub.v

\* Both predicates were called on a context whose publish list holds "*"
\* and whose subscribe list holds other names only: publish is granted,
\* subscribe is not.
C10_Witness ==
    /\ call.fn = "acl"
    /\ call.can_pub = Some(TRUE)
    /\ call.can_sub = Some(FALSE)
    /\ Contains(call.ctx.pub_channels, STAR)
    /\ call.ctx.sub_channels /= <<>>

(***************************************************************************)
(* Authenticator::authenticate as a function of the store and of its       *)
(* arguments, for the MemoryAuthenticator (the store is users) and for the *)
(* SqliteAuthenticator (the store is the database db).                     *)
(***************************************************************************)
NoSecret == <<>>

MemoryStores ==
    { [k \in {} |-> 0],
      ConfiguredUsers,
      (IdU :> UserData(NoSecret, <<>>, <<STAR, ChA>>)) }

Row(ident, channel, can_pub, can_sub) ==
    [ident |-> ident, channel |-> channel, can_pub |-> can_pub, can_sub |-> can_sub]

EmptyDb == [users |-> [k \in {} |-> 0], permissions |-> <<>>]

SqliteStores ==
    { EmptyDb,
      [users |-> (IdU :> SecretU) @@ (IdW :> NoSecret),
       permissions |-> << Row(IdU, ChA, TRUE, FALSE), Row(IdW, STAR, TRUE, TRUE),
                          Row(IdX, ChB, TRUE, TRUE), Row(IdU, ChB, FALSE, FALSE),
                          Row(IdU, REPLACEMENT, FALSE, TRUE), Row(IdU, ChA, TRUE, TRUE) >>],
      [users |-> (IdW :> SecretW), permissions |-> <<>>] }

\* The nonces handed to authenticate: <<1>> followed by SecretU is <<1, 49>>
\* followed by nothing.
AuthRands == { <<>>, <<1>>, <<1>> \o SecretU }

\* The proofs: the digest for some nonce and secret, or no bytes.
AuthProofs ==
    { hashsecret(r, x) : r \in AuthRands, x \in {NoSecret, SecretU, SecretW} }
    \cup { <<>> }

AuthCalls ==
    { [fn |-> "auth", variant |-> v, db |-> d, ident |-> i, secret_hash |-> h,
       rand |-> r, pc |-> "ready", result |-> None] :
        v \in {"memory"}, d \in {EmptyDb}, i \in WireIdents, h \in AuthProofs,
        r \in AuthRands }
    \cup
    { [fn |-> "auth", variant |-> v, db |-> d, ident |-> i, secret_hash |-> h,
       rand |-> r, pc |-> "ready", result |-> None] :
        v \in {"sqlite"}, d \in SqliteStores, i \in WireIdents, h \in AuthProofs,
        r \in AuthRands }

InitAuth ==
    /\ call \in AuthCalls
    /\ \E m \in IF call.variant = "memory" THEN MemoryStores ELSE {ConfiguredUsers} :
           InitBroker(m)

\* MemoryAuthenticator::authenticate holds the read lock of the map.
CallMemoryAuthenticate ==
    /\ call.fn = "auth" /\ call.variant = "memory" /\ call.pc = "ready"
    /\ call' = [call EXCEPT
                  !.result = authenticate(users, call.ident, call.secret_hash, call.rand),
                  !.pc = "done"]
    /\ UNCHANGED broker_vars

\* SqliteAuthenticator::authenticate runs two SELECT statements.
CallSqliteAuthenticate ==
    /\ call.fn = "auth" /\ call.variant = "sqlite" /\ call.pc = "ready"
    /\ call' = [call EXCEPT
                  !.result = SqliteAuthenticator_authenticate(
                                 call.db, call.ident, call.secret_hash, call.rand),
                  !.pc = "done"]
    /\ UNCHANGED broker_vars

NextAuth == CallMemoryAuthenticate \/ CallSqliteAuthenticate

SpecAuth == InitAuth /\ [][NextAuth]_vars

\* The user record of the call's store for its ident: whether there is one,
\* its secret and its allow-lists (for the database, the channels of the
\* ident's permission rows with the flag set, in table order).
RecordOf(cl) ==
    IF cl.variant = "memory"
    THEN IF cl.ident \in DOMAIN users
         THEN [exists |-> TRUE, secret |-> users[cl.ident].secret,
               pub |-> users[cl.ident].pub_channels,
               sub |-> users[cl.ident].sub_channels]
         ELSE [exists |-> FALSE]
    ELSE IF cl.ident \in DOMAIN cl.db.users
         THEN LET rows == SelectSeq(cl.db.permissions,
                                    LAMBDA row : row.ident = cl.ident)
                  names(ss) == [k \in 1..Len(ss) |-> ss[k].channel] IN
              [exists |-> TRUE, secret |-> cl.db.users[cl.ident],
               pub |-> names(SelectSeq(rows, LAMBDA row : row.can_pub)),
               sub |-> names(SelectSeq(rows, LAMBDA row : row.can_sub))]
         ELSE [exists |-> FALSE]

MaxPayload == 2
MaxTail == 1

\* n bytes, all different from their neighbours.
Fill(n, b) == [i \in 1..n |-> (b + i) % 256]

\* Counted strings: empty, one byte, the longest one and one byte more.
StrLens == {0, 1, STR8_MAX, STR8_MAX + 1}

\* Lengths of the remainder field after a counted string of n bytes: empty,
\* one byte, the longest one decode's ceiling for op admits and one more.
RemLens(op, n) ==
    { k \in {0, 1, max_op_len(op) - 1 - n, max_op_len(op) - n} : k >= 0 }

CodecFrames ==
    { ErrorF(Fill(k, 10)) : k \in {0, 1, max_op_len(OP_ERROR), max_op_len(OP_ERROR) + 1} }
    \cup UNION { { InfoF(Fill(n, 20), Fill(k, 30)) : k \in RemLens(OP_INFO, n) } :
                 n \in StrLens }
    \cup UNION { { AuthF(Fill(n, 40), Fill(k, 50)) : k \in RemLens(OP_AUTH, n) } :
                 n \in StrLens }
    \cup { PublishF(Fill(n, 60), Fill(m, 70), Fill(k, 80)) :
             n \in StrLens, m \in StrLens, k \in 0..MaxPayload }
    \cup UNION { { SubscribeF(Fill(n, 90), Fill(k, 100)) :
                     k \in RemLens(OP_SUBSCRIBE, n) } : n \in StrLens }
    \cup UNION { { UnsubscribeF(Fill(n, 110), Fill(k, 120)) :
                     k \in RemLens(OP_UNSUBSCRIBE, n) } : n \in StrLens }

\* What is in the output buffer before encode, and what follows a frame in
\* the receive buffer.
Prefixes == {<<>>, <<7>>}
Tails == { Fill(k, 8) : k \in 0..MaxTail }

EncodeCalls ==
    { [fn |-> "encode", item |-> f, dst |-> d, res |-> None] :
        f \in CodecFrames, d \in Prefixes }
RoundTripCalls ==
    { [fn |-> "roundtrip", item |-> f, tail |-> t, res |-> None] :
        f \in CodecFrames, t \in Tails }

\* Receive buffers written by hand: a declared length, an opcode and a body,
\* cut after any number of bytes.
RawLens == {0, 1, 2, 3, 4, 5, 6, 7, 8, 10, MAXBUF, MAXBUF + 1, MAXBUF + 100}
RawOps == {OP_ERROR, OP_INFO, OP_AUTH, OP_PUBLISH, OP_SUBSCRIBE, OP_UNSUBSCRIBE,
           6, 255}
RawBodies == { <<>>, <<0>>, <<200, 65>>, <<1, 65, 2, 66>>, <<1, 65, 1, 66, 67>> }
RawBufs ==
    UNION { { SubSeq(put_u32(l) \o <<op>> \o b, 1, have) :
                have \in 0..(5 + Len(b)) } :
            l \in RawLens, op \in RawOps, b \in RawBodies }
    \cup { SubSeq(<<255, 255, 255, 255, 3>>, 1, have) : have \in 4..5 }
DecodeCalls == { [fn |-> "decode", src |-> b, res |-> None] : b \in RawBufs }

InitCodec ==
    /\ InitBroker(ConfiguredUsers)
    /\ call \in EncodeCalls \cup RoundTripCalls \cup DecodeCalls

\* codec.encode(item, &mut dst)
CallEncode ==
    /\ call.fn = "encode"
    /\ ~call.res.some
    /\ call' = [call EXCEPT !.res = Some(encode(call.item, call.dst))]
    /\ UNCHANGED broker_vars

\* codec.decode(&mut src)
CallDecode ==
    /\ call.fn = "decode"
    /\ ~call.res.some
    /\ call' = [call EXCEPT !.res = Some(decode(call.src))]
    /\ UNCHANGED broker_vars

\* The frame is encoded into an empty buffer and the buffer, followed by
\* the bytes of the tail, is decoded.
CallRoundTrip ==
    LET e == encode_to_bytes(call.item) IN
    /\ call.fn = "roundtrip"
    /\ ~call.res.some
    /\ call' = [call EXCEPT !.res =
                  Some([encoded |-> e,
                        decoded |-> IF e.ok THEN decode(e.v \o call.tail)
                                    ELSE DecNone(<<>>)])]
    /\ UNCHANGED broker_vars

NextCodec == CallEncode \/ CallDecode \/ CallRoundTrip
SpecCodec == InitCodec /\ [][NextCodec]_vars

\* The counted-string fields of a frame, and the size encode gives it.
CountedStrings(item) ==
    CASE item.tag = "Error" -> {}
      [] item.tag = "Info" -> {item.name}
      [] item.tag = "Publish" -> {item.ident, item.channel}
      [] OTHER -> {item.ident}
RemainderOf(item) ==
    CASE item.tag = "Error" -> item.msg
      [] item.tag = "Info" -> item.rand
      [] item.tag = "Auth" -> item.secret_hash
      [] item.tag = "Publish" -> item.payload
      [] OTHER -> item.channel
CountedOk(item) == \A x \in CountedStrings(item) : Len(x) <= STR8_MAX
EncodedSize(item) ==
    5 + Len(RemainderOf(item))
      + (IF item.tag = "Error" THEN 0
         ELSE IF item.tag = "Publish"
         THEN 2 + Len(item.ident) + Len(item.channel)
         ELSE 1 + Len(IF item.tag = "Info" THEN item.name ELSE item.ident))
RoundTripDone == call.fn = "roundtrip" /\ call.res.some
RoundTrips ==
    /\ call.res.v.encoded.ok
    /\ call.res.v.decoded = DecOk(call.item, call.tail)

\* C11 as stated: every frame with counted strings of at most 255 bytes and
\* an encoded size of at most MAXBUF decodes to itself from its own bytes,
\* and decode consumes exactly those bytes.
C11_RoundTripUpToMaxbuf ==
    (RoundTripDone /\ CountedOk(call.item) /\ EncodedSize(call.item) <= MAXBUF)
        => RoundTrips

\* C11: a frame with counted strings of at most 255 bytes decodes to
\* itself from its own bytes, decode consuming exactly those bytes, when
\* its encoded size is at most MAXBUF and at most the ceiling decode sets
\* for its opcode; above that ceiling decode refuses the encoded frame.
C11_RoundTrip ==
    (RoundTripDone /\ CountedOk(call.item) /\ EncodedSize(call.item) <= MAXBUF)
        => IF EncodedSize(call.item) <= 5 + max_op_len(OpOf(call.item))
           THEN RoundTrips
           ELSE call.res.v.encoded.ok /\ call.res.v.decoded.kind = "error"

C11_Witness ==
    /\ RoundTripDone
    /\ call.item.tag = "Subscribe"
    /\ Len(call.item.ident) = STR8_MAX
    /\ EncodedSize(call.item) = 5 + max_op_len(OP_SUBSCRIBE)
    /\ call.tail /= <<>>
    /\ RoundTrips


DecodeDone == call.fn = "decode" /\ call.res.some
DeclaredLen == get_u32(call.src)

\* C12: once the four bytes of a length header declaring more than MAXBUF
\* are buffered, decode returns a fatal error, never a frame and never
\* "incomplete", and takes nothing out of the buffer beyond the header.
C12_OversizeRefused ==
    (DecodeDone /\ Len(call.src) >= 4 /\ DeclaredLen > MAXBUF)
        => /\ call.res.v.kind = "error"
           /\ \E k \in 0..4 :
                call.res.v.rest = SubSeq(call.src, k + 1, Len(call.src))

C12_Witness ==
    /\ DecodeDone
    /\ call.src = put_u32(MAXBUF + 1)
    /\ call.res.v.kind = "error"


Opcodes == {OP_ERROR, OP_INFO, OP_AUTH, OP_PUBLISH, OP_SUBSCRIBE, OP_UNSUBSCRIBE}

\* C13: a message whose opcode byte is none of 0..5 never yields a frame
\* and is refused with a fatal error once the length header and the opcode
\* byte are buffered, whether or not its body has arrived, for every
\* declared length from 5 to MAXBUF.
C13_UnknownOpcodeRefusedEarly ==
    (/\ DecodeDone
     /\ Len(call.src) >= 5
     /\ call.src[5] \notin Opcodes
     /\ DeclaredLen >= 5
     /\ DeclaredLen <= MAXBUF)
        => call.res.v.kind = "error"

\* A complete message with an unknown opcode is refused.
C13_Witness ==
    /\ DecodeDone
    /\ call.src = put_u32(5) \o <<255>>
    /\ call.res.v.kind = "error"


\* C14: whatever the receive buffer holds, decode returns a frame,
\* "incomplete" or a fatal parse error; a buffered header declaring a
\* length of 0, 1, 2, 3 or 4 gives the fatal parse error, never a frame
\* and never a panic of the decoder.
C14_ThreeOutcomes ==
    DecodeDone
        => /\ call.res.v.kind \in {"frame", "incomplete", "error"}
           /\ (Len(call.src) >= 4 /\ DeclaredLen < 5)
                => call.res.v.kind = "error"

\* A declared length of 4 (no opcode) is refused as an empty message.
C14_Witness ==
    /\ DecodeDone
    /\ Len(call.src) >= 4
    /\ DeclaredLen = 4
    /\ call.res.v.kind = "error"


(***************************************************************************)
(* Malformed counted strings on a connection.                              *)
(***************************************************************************)
\* Declared length 7, opcode 2 (Auth), an ident said to be 200 bytes long,
\* one byte 'A'.
MalformedAuth == <<0, 0, 0, 7, 2, 200, 65>>

\* decode refuses the overrunning string also when 200 more bytes follow
\* the frame in the buffer.
OverrunRefused ==
    \A tail \in {<<>>, Fill(200, 0)} :
        decode(MalformedAuth \o tail) = DecErr(tail)

\* The handler of c meets a frame that does not parse.
ParseErrorStep(c) == OnNotAuth(c, ParseError) \/ OnEnd(c, ParseError)

\* C15: a counted string whose declared length exceeds what is left of the
\* frame body makes decode return a fatal error, never a frame whose field
\* reaches into the bytes that follow, and the connection that sent the
\* frame is closed.
C15_OverrunCloses ==
    [][OverrunRefused
       /\ \A c \in Conns : ParseErrorStep(c) => st'[c] = "Terminated"]_vars

\* A serving connection without subscriptions is closed by a malformed
\* frame.
C15_Witness ==
    \E c \in Conns :
        /\ st[c] = "Terminated"
        /\ why[c] = "closed"
        /\ rd[c] = "end"
        /\ access_ctx[c].some


(***************************************************************************)
(* Encoding.                                                               *)
(***************************************************************************)
EncodeDone == call.fn = "encode" /\ call.res.some
\* What encode appended to the output buffer.
Appended ==
    SubSeq(call.res.v.dst, Len(call.dst) + 1, Len(call.res.v.dst))

\* C16: encoding a frame one of whose counted strings is longer than 255
\* bytes fails and appends nothing to the output buffer; with counted
\* strings of at most 255 bytes it succeeds and appends a frame whose
\* length field is 5 plus the length of the body.
C16_EncodeAllOrNothing ==
    EncodeDone
        => IF CountedOk(call.item)
           THEN /\ call.res.v.ok
                /\ SubSeq(call.res.v.dst, 1, Len(call.dst)) = call.dst
                /\ Len(Appended) = EncodedSize(call.item)
                /\ get_u32(Appended) = 5 + Len(SubSeq(Appended, 6, Len(Appended)))
                /\ Appended[5] = OpOf(call.item)
           ELSE /\ ~call.res.v.ok
                /\ call.res.v.dst = call.dst

C16_Witness ==
    /\ EncodeDone
    /\ call.item.tag = "Publish"
    /\ Len(call.item.ident) = STR8_MAX
    /\ Len(call.item.channel) = STR8_MAX + 1
    /\ call.dst /= <<>>
    /\ ~call.res.v.ok
    /\ call.res.v.dst = call.dst


(***************************************************************************)
(* The broker with two channels: peers that authenticate as the wildcard   *)
(* user, keep their side of the connection open and name two channels.     *)
(***************************************************************************)
WireChannelsTwo == {ChA, ChBad}

\* The answer of the client library to the Info sent to c, for the user
\* that may publish and subscribe everywhere.
HonestAuthFrames(c) ==
    { connect_and_auth(InfoBytes(randbuf[c]), i, users[i].secret).v :
        i \in {IdW} }

RecvHonestAuth(c) == \E f \in HonestAuthFrames(c) : OnAuth(c, f)
RecvSubscribeTwo(c) ==
    \E ch \in WireChannelsTwo : OnSubscribe(c, SubscribeF(IdX, ch))
RecvUnsubscribeTwo(c) ==
    \E ch \in WireChannelsTwo : OnUnsubscribe(c, UnsubscribeF(IdX, ch))
\* One publisher: the first connection.
PublisherTwo(c) == \A d \in Conns : c <= d
RecvPublishTwo(c) ==
    /\ PublisherTwo(c)
    /\ \E ch \in WireChannelsTwo :
        OnPublish(c, PublishF(IdW, ch, <<metrics.published + 1>>))

NextTwo ==
    \E c \in Conns :
        \/ Accept(c)
        \/ RecvHonestAuth(c)
        \/ RecvSubscribeTwo(c)
        \/ RecvUnsubscribeTwo(c)
        \/ RecvPublishTwo(c)
        \/ OutboundFirst(c)
        \/ DrainPoll(c)
        \/ DrainWrite(c)
        \/ DrainLagged(c)

SpecTwo == Init /\ [][NextTwo]_vars


(***************************************************************************)
(* Unsubscribe.                                                            *)
(***************************************************************************)
ChanStrsTwo == { from_utf8_lossy(ch) : ch \in WireChannelsTwo }

\* The number of messages the sender of ch has queued.
QLen(ch) == IF ch \in DOMAIN subscribers THEN Len(subscribers[ch]) ELSE 0

\* Message i of ch is in a batch written to c or in the batch c is building.
Got(c, ch, i) ==
    \/ Written(c, ch, i)
    \/ \E k \in 1..Len(write_buf[c].items) : write_buf[c].items[k] = <<ch, i>>

\* Message i of ch exists, c does not have it, and c holds no receiver of
\* ch or one that is already past the message.
Missed(c, ch, i) ==
    /\ i <= QLen(ch)
    /\ ~Got(c, ch, i)
    /\ ch \in DOMAIN stream_map[c] => stream_map[c][ch] >= i

\* What processing Unsubscribe{wch} of c changes and what it leaves alone.
UnsubscribeEffect(c, wch) ==
    LET chan == from_utf8_lossy(wch) IN
    /\ chan \notin DOMAIN stream_map'[c]
    /\ DOMAIN stream_map'[c] = DOMAIN stream_map[c] \ {chan}
    /\ \A k \in DOMAIN stream_map'[c] : stream_map'[c][k] = stream_map[c][k]
    /\ \A d \in Conns \ {c} : stream_map'[d] = stream_map[d]
    /\ subscribers' = subscribers

\* C17: processing Unsubscribe{ch} of a connection removes its receiver of
\* ch and nothing else: its other subscriptions and every other
\* connection's receivers stay as they are, so the others keep receiving.
\* A message queued on ch while the connection holds no receiver of ch is
\* missed by it, and a missed message is never put into a batch for that
\* connection, not even after it subscribes again.
C17_Unsubscribe ==
    [][/\ \A c \in Conns : \A wch \in WireChannelsTwo :
            OnUnsubscribe(c, UnsubscribeF(IdX, wch)) => UnsubscribeEffect(c, wch)
       /\ \A c \in Conns : \A ch \in ChanStrsTwo : \A i \in 1..MaxPub :
            /\ (ch \notin DOMAIN stream_map[c] /\ QLen(ch) < i /\ i <= QLen(ch)')
                  => Missed(c, ch, i)'
            /\ Missed(c, ch, i) => Missed(c, ch, i)']_vars

\* After a first message went to both subscribers, c unsubscribed from ch
\* and kept another subscription; the second message went to d only.
C17_Witness ==
    \E c \in Conns, d \in Conns : \E ch \in ChanStrsTwo, other \in ChanStrsTwo :
        /\ c /= d
        /\ ch /= other
        /\ Written(c, ch, 1) /\ Written(d, ch, 1)
        /\ Written(d, ch, 2)
        /\ Missed(c, ch, 2)
        /\ st[c] = "Serving"
        /\ ch \notin DOMAIN stream_map[c]
        /\ other \in DOMAIN stream_map[c]


(***************************************************************************)
(* Order of delivery.                                                      *)
(***************************************************************************)
\* The messages written to c's socket, in the order of the bytes, followed
\* by those of the batch c is building.
ItemsOf(c) ==
    Flatten([j \in 1..Len(Batches(c)) |-> Batches(c)[j].items])
        \o write_buf[c].items

\* The bytes of every written batch are, frame by frame, the Publish
\* frames of its messages.
FramesFollowItems ==
    \A c \in Conns : \A j \in 1..Len(Batches(c)) :
        LET w == Batches(c)[j] IN
        /\ Len(FramesOf(w)) = Len(w.items)
        /\ \A k \in 1..Len(w.items) :
            /\ FramesOf(w)[k].tag = "Publish"
            /\ FramesOf(w)[k].channel = Origin(w.items[k]).wire.channel
            /\ FramesOf(w)[k].payload = Origin(w.items[k]).wire.payload

Reads(c, ch) ==
    /\ ch \in DOMAIN stream_map[c]
    /\ ch \in DOMAIN stream_map'[c]
    /\ stream_map'[c][ch] /= stream_map[c][ch]

\* The read yields the very next message and puts it at the end of the
\* batch.
ReadsNext(c, ch) ==
    /\ stream_map'[c][ch] = stream_map[c][ch] + 1
    /\ write_buf'[c].items =
          Append(write_buf[c].items, <<ch, stream_map[c][ch] + 1>>)

\* No message is in c's written bytes twice, and they are in queue order.
OnceInOrder(c) ==
    \A a \in 1..Len(ItemsOf(c)), b \in 1..Len(ItemsOf(c)) :
        (a < b /\ ItemsOf(c)[a][1] = ItemsOf(c)[b][1])
            => ItemsOf(c)[a][2] < ItemsOf(c)[b][2]

LostTo(c, ch) == QLen(ch) - Capacity - stream_map[c][ch]

\* The read yields Lagged(LostTo): the receiver moves to the oldest of the
\* Capacity most recent messages, no message is put into the batch, and at
\* a wakeup of the serving loop the lagged counter grows by that number.
ReadsLagged(c, ch) ==
    /\ stream_map'[c][ch] = stream_map[c][ch] + LostTo(c, ch)
    /\ QLen(ch) - stream_map'[c][ch] = Capacity
    /\ \A k \in 1..Len(write_buf'[c].items) :
          k <= Len(write_buf[c].items) /\ write_buf'[c].items[k] = write_buf[c].items[k]
    /\ pc[c] = "select" => metrics'.lagged = metrics.lagged + LostTo(c, ch)

LaggedStep(c) ==
    /\ st[c] = "Serving"
    /\ \E ch \in DOMAIN stream_map[c] :
        /\ Overflowed(c, ch)
        /\ \/ OutboundFirst(c) /\ UNCHANGED write_buf
           \/ DrainLagged(c)

\* C21: a Lagged signal ends no connection and removes no subscription:
\* after the step the connection is Serving and holds the receivers it
\* held, unless the write of the batch it had built failed; and the
\* messages that follow the gap, pending for the receiver, end up written
\* to it.
C21_LaggedKeepsServing ==
    /\ [][\A c \in Conns :
            LaggedStep(c) =>
                \/ st'[c] = "Serving" /\ DOMAIN stream_map'[c] = DOMAIN stream_map[c]
                \/ WriteFailed(c)']_vars
    /\ \A c \in Conns : \A ch \in ChanStrs : \A i \in 1..MaxPub :
         (Pending(c, ch, i) /\ metrics.lagged > 0) ~>
            (Written(c, ch, i) \/ Overflowed(c, ch) \/ ch \notin DOMAIN stream_map[c])

\* The only connection subscribed, published three messages before it
\* read any, and lagged: it is Serving, keeps its subscription and was sent
\* the message after the gap.
C21_Witness ==
    \E c \in Conns : \E ch \in ChanStrs :
        /\ \A d \in Conns \ {c} : st[d] = "Idle"
        /\ st[c] = "Serving"
        /\ ch \in DOMAIN stream_map[c]
        /\ metrics.lagged = MaxPub - Capacity
        /\ Missed(c, ch, 1)
        /\ Written(c, ch, MaxPub)

(***************************************************************************)
(* The publisher never waits.                                              *)
(***************************************************************************)
\* C22: a handler that reads a Publish frame processes it at once,
\* whatever the positions of the channel's receivers and the state of the
\* other connections, and is then ready for its next inbound frame; an
\* authorized message for a channel with receivers is queued behind those
\* already pending, also when a receiver has Capacity or more of them.
C22_PublishNeverWaits ==
    /\ [](\A c \in Conns : \A f \in PublishFrames :
            (CanRead(c) /\ metrics.published < MaxPub) => ENABLED OnPublish(c, f))
    /\ [][\A c \in Conns : \A f \in PublishFrames :
            OnPublish(c, f) =>
                LET ch == from_utf8_lossy(f.channel) IN
                /\ CanRead(c)'
                /\ (can_publish(access_ctx[c].v, ch) /\ Receivers(ch) /= {})
                      => QLen(ch)' = QLen(ch) + 1]_vars

\* A connection published the last message while another connection,
\* whose peer had closed its socket, had read none of the earlier ones.
C22_Witness ==
    \E c \in Conns, s \in Conns : \E ch \in ChanStrs :
        /\ c /= s
        /\ QLen(ch) = MaxPub
        /\ subscribers[ch][MaxPub].by = c
        /\ CanRead(c)
        /\ rd[s] = "end"
        /\ ch \in DOMAIN stream_map[s]
        /\ stream_map[s][ch] = 0


(***************************************************************************)
(* A parse error in Serving.                                               *)
(***************************************************************************)
\* C23: in Serving, an inbound frame that does not parse terminates the
\* handler and releases all of the connection's receivers, whether or not
\* the connection holds subscriptions.
C23_ParseErrorTerminates ==
    [][\A c \in Conns :
          OnEnd(c, ParseError)
              => st'[c] = "Terminated" /\ stream_map'[c] = EmptyMap]_vars

\* The frame stream of a connection has ended while the handler still
\* serves its subscriptions: the socket is open and the receivers are kept.
C23_Witness ==
    \E c \in Conns :
        /\ st[c] = "Serving"
        /\ rd[c] = "end"
        /\ pc[c] = "select"
        /\ DOMAIN stream_map[c] /= {}


(***************************************************************************)
(* The peer closes its socket.                                             *)
(***************************************************************************)
\* The broker with peers that answer the handshake with an Auth frame and
\* may end their frame stream at any time.
NextClose ==
    \/ NextOpen
    \/ \E c \in Conns : RecvEnd(c)

\* The scheduling of FairSpec; nothing obliges a peer to send or to close.
FairClose ==
    /\ Init
    /\ [][NextClose]_vars
    /\ \A c \in Conns : WF_vars(OutboundStep(c))

\* C24: once the inbound frame stream of a connection has ended, its
\* handler eventually reaches Terminated with its receivers released, also
\* when it holds subscriptions on which nothing more is published.
C24_ClosedTerminates ==
    \A c \in Conns :
        (rd[c] = "end") ~> (st[c] = "Terminated" /\ stream_map[c] = EmptyMap)

\* The peer has closed, the handler holds a subscription with nothing left
\* to read, and the publish budget is spent: the handler waits in select!.
C24_Witness ==
    \E c \in Conns :
        /\ rd[c] = "end"
        /\ st[c] = "Serving"
        /\ pc[c] = "select"
        /\ DOMAIN stream_map[c] /= {}
        /\ \A ch \in DOMAIN stream_map[c] : stream_map[c][ch] = QLen(ch)
        /\ metrics.published = MaxPub


(***************************************************************************)
(* Isolation of a terminating connection.                                  *)
(***************************************************************************)
\* The step ends connection c.
Dies(c) == st[c] /= "Terminated" /\ st'[c] = "Terminated"

\* C25: a step that terminates a connection, whatever the cause, leaves the
\* state, the access context and the subscriptions of every other
\* connection and the registry as they were; afterwards a publish is still
\* queued for every remaining receiver of its channel, and a handler with
\* a pending message can still take its outbound branch.
C25_TerminationIsolated ==
    /\ [][\A c \in Conns :
            Dies(c) =>
                /\ \A d \in Conns \ {c} :
                      /\ st'[d] = st[d]
                      /\ access_ctx'[d] = access_ctx[d]
                      /\ stream_map'[d] = stream_map[d]
                /\ subscribers' = subscribers]_vars
    /\ [][\A p \in Conns : \A f \in PublishFrames :
            (OnPublish(p, f) /\ \E c \in Conns : st[c] = "Terminated") =>
                LET ch == from_utf8_lossy(f.channel) IN
                \A d \in Receivers(ch) :
                    can_publish(access_ctx[p].v, ch)
                        => QLen(ch)' = QLen(ch) + 1 /\ Pending(d, ch, QLen(ch))']_vars
    /\ [](\A d \in Conns :
            (/\ st[d] = "Serving"
             /\ pc[d] = "select"
             /\ \E ch \in ChanStrs : Pending(d, ch, QLen(ch)))
                => ENABLED OutboundFirst(d))

\* A connection that held subscriptions was terminated by a failed write,
\* and another connection has been written the last message of a channel.
C25_Witness ==
    \E c \in Conns, d \in Conns : \E ch \in ChanStrs :
        /\ c /= d
        /\ st[c] = "Terminated"
        /\ why[c] = "write"
        /\ st[d] = "Serving"
        /\ QLen(ch) = MaxPub
        /\ Written(d, ch, MaxPub)


(***************************************************************************)
(* The accept loop.                                                        *)
(***************************************************************************)
\* Line 211: listener.accept() returns an error and `?` returns it from
\* main (line 118).  The runtime of #[tokio::main] is dropped with main's
\* future: every handler task is cancelled, its socket and its receivers
\* are dropped, and the process exits.
AcceptError ==
    /\ listening
    /\ listening' = FALSE
    /\ st' = [c \in Conns |->
                IF st[c] \in {"AwaitAuth", "Serving"} THEN "Terminated" ELSE st[c]]
    /\ why' = [c \in Conns |->
                IF st[c] \in {"AwaitAuth", "Serving"} THEN "exit" ELSE why[c]]
    /\ stream_map' = [c \in Conns |-> EmptyMap]
    /\ UNCHANGED << call, ignored, users, subscribers, metrics, randbuf, access_ctx, pc,
                    write_buf, rd, sent >>

\* The broker of NextOpen whose listener may fail to accept.
NextAcceptError ==
    \/ NextOpen
    \/ AcceptError

SpecAcceptError == Init /\ [][NextAcceptError]_vars

\* C26: an error returned by accept does not stop the listener: the accept
\* loop goes on, the connections being served are kept, and a connection
\* that arrives afterwards is accepted.
C26_AcceptErrorRetried ==
    /\ [][AcceptError => listening' /\ st' = st]_vars
    /\ [](\A c \in Conns :
            (st[c] = "Idle" /\ \A d \in Conns : d < c => st[d] /= "Idle")
                => ENABLED Accept(c))

\* After an accept error the connection that was being served is gone and
\* the next one to arrive is never accepted.
C26_Witness ==
    \E c \in Conns, d \in Conns :
        /\ ~listening
        /\ st[c] = "Terminated" /\ why[c] = "exit"
        /\ st[d] = "Idle"
        /\ ~ENABLED Accept(d)


(***************************************************************************)
(* The registry of channels.                                               *)
(***************************************************************************)
\* The step adds an entry for ch to the registry.
Created(ch) == ch \notin DOMAIN subscribers /\ ch \in DOMAIN subscribers'

\* The step processes a Subscribe for ch that the access context of the
\* connection allows.
AuthorizedSubscribe(ch) ==
    \E c \in Conns : \E f \in SubscribeFrames :
        /\ OnSubscribe(c, f)
        /\ from_utf8_lossy(f.channel) = ch
        /\ can_subscribe(access_ctx[c].v, ch)

\* C27: no step removes an entry of the registry; an entry for a channel
\* is created by the first authorized Subscribe for it and by nothing
\* else, and Unsubscribe, Publish, a denied Subscribe and the termination
\* of a connection leave the set of entries unchanged.
C27_RegistryOnlyGrows ==
    [][/\ DOMAIN subscribers \subseteq DOMAIN subscribers'
       /\ \A ch \in ChanStrs :
            /\ Created(ch) => AuthorizedSubscribe(ch)
            /\ AuthorizedSubscribe(ch) => ch \in DOMAIN subscribers'
       /\ (\E c \in Conns :
              \/ Dies(c)
              \/ \E f \in UnsubscribeFrames : OnUnsubscribe(c, f)
              \/ \E f \in PublishFrames : OnPublish(c, f)
              \/ \E f \in SubscribeFrames :
                    /\ OnSubscribe(c, f)
                    /\ ~can_subscribe(access_ctx[c].v, from_utf8_lossy(f.channel)))
            => DOMAIN subscribers' = DOMAIN subscribers]_vars

\* Every connection has terminated, one of them by a failed write of a
\* message of a channel it was subscribed to, and the entry is still there.
C27_Witness ==
    \E ch \in ChanStrs :
        /\ ch \in DOMAIN subscribers
        /\ \A c \in Conns : st[c] = "Terminated"
        /\ \E c \in Conns : why[c] = "write" /\ Len(subscribers[ch]) > 0


(***************************************************************************)
(* Changes to the user store while the broker runs.                        *)
(***************************************************************************)
\* The record that replaces the one of "w": the same secret and no channel.
RevokedW == UserData(SecretW, <<>>, <<>>)
StoreRecords == {RevokedW, ConfiguredUsers[IdW]}

\* MemoryAuthenticator::add_user, and AddUser of the administration tool on
\* the database of SqliteAuthenticator: the record of ident is inserted or
\* replaced.
add_user(ident, data) ==
    /\ IF ident \in DOMAIN users THEN users[ident] /= data ELSE TRUE
    /\ users' = MapPut(users, ident, data)
    /\ UNCHANGED << call, listening, ignored, subscribers, metrics, st, randbuf, access_ctx,
                    stream_map, pc, write_buf, rd, sent, why >>

\* RemoveUser of the administration tool: the user and its permissions
\* are deleted.
RemoveUser(ident) ==
    /\ ident \in DOMAIN users
    /\ users' = MapRemove(users, ident)
    /\ UNCHANGED << call, listening, ignored, subscribers, metrics, st, randbuf, access_ctx,
                    stream_map, pc, write_buf, rd, sent, why >>

\* The broker of NextOpen whose peers also send frames that the serving
\* loop ignores, while the record of "w" is replaced, removed and restored.
NextStore ==
    \/ NextOpen
    \/ \E c \in Conns : RecvOther(c)
    \/ \E data \in StoreRecords : add_user(IdW, data)
    \/ RemoveUser(IdW)

SpecStore == Init /\ [][NextStore]_vars

\* C28: once bound, the access context of a connection never changes,
\* whatever frames the connection sends and however the record of its user
\* is replaced or removed; Subscribe and Publish are decided by the bound
\* context alone.
C28_AccessContextFixed ==
    [][\A c \in Conns :
          /\ access_ctx[c].some => access_ctx'[c] = access_ctx[c]
          /\ \A f \in SubscribeFrames :
                OnSubscribe(c, f) =>
                    LET ch == from_utf8_lossy(f.channel) IN
                    (ch \in DOMAIN stream_map'[c])
                        <=> (ch \in DOMAIN stream_map[c] \/ can_subscribe(access_ctx[c].v, ch))
          /\ \A f \in PublishFrames :
                OnPublish(c, f) =>
                    (metrics'.published = metrics.published + 1
                        <=> can_publish(access_ctx[c].v, from_utf8_lossy(f.channel)))]_vars

\* The record of "w" has been removed since a connection authenticated as
\* "w"; the connection holds no receiver yet and its Subscribe is granted.
C28_Witness ==
    \E c \in Conns :
        /\ CanRead(c)
        /\ access_ctx[c].v.ident = from_utf8_lossy(IdW)
        /\ IdW \notin DOMAIN users
        /\ DOMAIN stream_map[c] = {}
        /\ ENABLED (\E f \in SubscribeFrames :
                       OnSubscribe(c, f) /\ DOMAIN stream_map'[c] /= {})


(***************************************************************************)
(* The metrics endpoint.                                                   *)
(***************************************************************************)
\* Registry::gather on the registry of Metrics::new, as the /metrics
\* handler encodes it: one sample per registered counter, its name and its
\* value.  A counter that was never incremented is exposed with value 0.
gather(m) ==
    { <<"hpfeeds_delivered_total", m.delivered>>,
      <<"hpfeeds_lagged_total", m.lagged>>,
      <<"hpfeeds_published_total", m.published>>,
      <<"hpfeeds_auth_success_total", m.auth_success>>,
      <<"hpfeeds_auth_fail_total", m.auth_fail>> }

\* The connections the listener has accepted so far.
Connected == { c \in Conns : st[c] /= "Idle" }

\* C29: once a client has connected, the metrics endpoint exposes the
\* counter hpfeeds_connections_total with a value of at least 1.
C29_ConnectionsCounted ==
    Connected /= {}
        => \E sample \in gather(metrics) :
              sample[1] = "hpfeeds_connections_total" /\ sample[2] >= 1

\* A client has connected and authenticated, and no sample of the
\* exposition is named hpfeeds_connections_total.
C29_Witness ==
    /\ \E c \in Conns : st[c] = "Serving"
    /\ metrics.auth_success >= 1
    /\ \A sample \in gather(metrics) : sample[1] /= "hpfeeds_connections_total"


(***************************************************************************)
(* Subscribe before authentication.                                        *)
(***************************************************************************)
\* The Subscribe frames a peer may send as its first frame.
FirstSubscribes == { f \in FirstOtherInputs : f.tag = "Subscribe" }

C31_EveryLagCounted ==
    [][\A c \in Conns : \A ch \in ChanStrs :
          (Reads(c, ch) /\ Overflowed(c, ch))
              => metrics'.lagged = metrics.lagged + LostTo(c, ch)]_vars

\* A handler is draining a batch that has room left, and more messages
\* than the channel keeps are pending for one of its receivers: the next
\* poll of the drain loop yields Lagged.
C31_Witness ==
    \E c \in Conns : \E ch \in ChanStrs :
        /\ st[c] = "Serving"
        /\ pc[c] = "drain"
        /\ Len(write_buf[c].items) < BATCH_LIMIT
        /\ Overflowed(c, ch)
        /\ ENABLED DrainLagged(c)


(***************************************************************************)
(* The published counter.                                                  *)
(***************************************************************************)
\* The step processes a Publish frame that the access context of its
\* connection allows.
AuthorizedPublish ==
    \E c \in Conns : \E f \in PublishFrames :
        /\ OnPublish(c, f)
        /\ can_publish(access_ctx[c].v, from_utf8_lossy(f.channel))

\* C32: the published counter grows by exactly 1 in a step that processes
\* an authorized Publish frame, whether or not its channel has a registry
\* entry or a receiver, and is unchanged by every other step.
C32_PublishedCounted ==
    [][IF AuthorizedPublish
       THEN metrics'.published = metrics.published + 1
       ELSE metrics'.published = metrics.published]_vars

\* Publishes were counted although no channel was ever registered, while a
\* denied Publish of another connection was not.
C32_Witness ==
    /\ metrics.published = MaxPub
    /\ DOMAIN subscribers = {}
    /\ \E c \in Conns : \E ch \in ChanStrs : <<"Publish", ch>> \in ignored[c]


(***************************************************************************)
(* Concurrent first subscriptions (lines 391-392).                         *)
(*                                                                         *)
(* Handlers run in parallel, so the two statements of an authorized        *)
(* Subscribe are two steps here.  call keeps the books: how many senders   *)
(* were created under each name, the clone a handler holds between the     *)
(* two statements, and the sender each receiver was obtained from.  A      *)
(* sender is named by its number among those created for its channel.      *)
(***************************************************************************)
InitRace ==
    /\ InitBroker(ConfiguredUsers)
    /\ call = [fn |-> "subscribe",
               created |-> [ch \in ChanStrs |-> 0],
               b_tx |-> [c \in Conns |-> None],
               rx |-> [c \in Conns |-> EmptyMap]]

\* or_insert_with putting a new sender in place of the one registered.
or_insert_with_replaces(c, f) ==
    LET chan_str == from_utf8_lossy(f.channel)
        n == call.created[chan_str] + 1 IN
    /\ CanRead(c)
    /\ can_subscribe(access_ctx[c].v, chan_str)
    /\ chan_str \notin DOMAIN stream_map[c]
    /\ subscribers' = MapPut(subscribers, chan_str, <<>>)
    /\ call' = [call EXCEPT !.created[chan_str] = n, !.b_tx[c] = Some(<<chan_str, n>>)]
    /\ pc' = [pc EXCEPT ![c] = "subscribe"]
    /\ UNCHANGED << listening, ignored, users, metrics, st, randbuf, access_ctx, stream_map,
                    write_buf, rd, sent, why >>

\* Line 391: subscribers.entry(chan_str).or_insert_with(..).value().clone()
\* under the lock of the map's shard: the sender registered for the name
\* is cloned, after a new one was created if there was none.
or_insert_with(c, f) ==
    LET chan_str == from_utf8_lossy(f.channel)
        vacant == chan_str \notin DOMAIN subscribers
        n == IF vacant THEN call.created[chan_str] + 1 ELSE call.created[chan_str] IN
    /\ CanRead(c)
    /\ can_subscribe(access_ctx[c].v, chan_str)
    /\ chan_str \notin DOMAIN stream_map[c]
    /\ subscribers' = IF vacant THEN MapPut(subscribers, chan_str, <<>>) ELSE subscribers
    /\ call' = [call EXCEPT !.created[chan_str] = n, !.b_tx[c] = Some(<<chan_str, n>>)]
    /\ pc' = [pc EXCEPT ![c] = "subscribe"]
    /\ UNCHANGED << listening, ignored, users, metrics, st, randbuf, access_ctx, stream_map,
                    write_buf, rd, sent, why >>

\* Line 392: b_tx.subscribe() yields a receiver at the tail of the sender,
\* and the stream map takes it.
subscribe(c) ==
    /\ st[c] = "Serving"
    /\ pc[c] = "subscribe"
    /\ LET chan_str == call.b_tx[c].v[1]
           b_tx == call.b_tx[c].v[2] IN
       /\ stream_map' =
             [stream_map EXCEPT ![c] = MapPut(@, chan_str, Len(subscribers[chan_str]))]
       /\ call' = [call EXCEPT !.b_tx[c] = None, !.rx[c] = MapPut(@, chan_str, b_tx)]
    /\ pc' = [pc EXCEPT ![c] = "select"]
    /\ UNCHANGED << listening, ignored, users, subscribers, metrics, st, randbuf, access_ctx,
                    write_buf, rd, sent, why >>

RecvSubscribeRace(c) == \E f \in SubscribeFrames : or_insert_with(c, f)

\* The broker with honest peers of the wildcard user, whose Subscribe
\* frames are processed statement by statement.
NextRace ==
    \E c \in Conns :
        \/ Accept(c)
        \/ RecvHonestAuth(c)
        \/ RecvSubscribeRace(c)
        \/ subscribe(c)
        \/ RecvPublish(c)
        \/ OutboundFirst(c)
        \/ DrainPoll(c)
        \/ DrainWrite(c)
        \/ DrainLagged(c)

SpecRace == InitRace /\ [][NextRace]_vars

\* C33: however the Subscribes of several connections to an unregistered
\* channel interleave, one sender is created for the name and no more, the
\* registry holds it, every receiver of the channel was obtained from it,
\* and a message published afterwards is queued for every such receiver.
C33_OneSender ==
    /\ [](\A ch \in ChanStrs :
            /\ call.created[ch] <= 1
            /\ ch \in DOMAIN subscribers <=> call.created[ch] = 1)
    /\ [](\A c \in Conns : \A ch \in DOMAIN stream_map[c] :
            call.rx[c][ch] = call.created[ch])
    /\ [](\A c \in Conns :
            call.b_tx[c].some => call.b_tx[c].v[2] = call.created[call.b_tx[c].v[1]])
    /\ [][\A p \in Conns : \A f \in PublishFrames :
            OnPublish(p, f) =>
                LET ch == from_utf8_lossy(f.channel) IN
                \A d \in Receivers(ch) :
                    /\ QLen(ch)' = QLen(ch) + 1
                    /\ Pending(d, ch, QLen(ch))']_vars

\* Every connection is between the two statements of its Subscribe for
\* the same channel, one sender has been created, and all hold it.
C33_Witness ==
    \E ch \in ChanStrs :
        /\ call.created[ch] = 1
        /\ \A c \in Conns :
              /\ pc[c] = "subscribe"
              /\ call.b_tx[c] = Some(<<ch, 1>>)

(***************************************************************************)
(* Subscribe is idempotent.                                                *)
(***************************************************************************)
\* c can process the Subscribe frame f, for a channel it is subscribed to.
SubscribedAgain(c, f) ==
    /\ CanRead(c)
    /\ from_utf8_lossy(f.channel) \in DOMAIN stream_map[c]

\* C34: processing a Subscribe for a channel the connection is already
\* subscribed to is possible and changes nothing: the stream map, the
\* receiver's position and so its pending messages, and the registry stay
\* as they are; and no message is written to a connection twice.
C34_SubscribeIdempotent ==
    /\ \A c \in Conns : \A f \in SubscribeFrames :
          SubscribedAgain(c, f) =>
              /\ ENABLED (OnSubscribe(c, f) /\ UNCHANGED vars)
              /\ ~ENABLED (OnSubscribe(c, f) /\ vars' /= vars)
    /\ AtMostOnce

\* A subscribed connection with a message pending, and another already
\* written to it, is ready to process a second Subscribe for the channel.
C34_Witness ==
    \E c \in Conns : \E f \in SubscribeFrames :
        LET ch == from_utf8_lossy(f.channel) IN
        /\ SubscribedAgain(c, f)
        /\ Written(c, ch, 1)
        /\ Pending(c, ch, 2)
        /\ ENABLED OnSubscribe(c, f)

(***************************************************************************)
(* Frames the serving loop ignores.                                        *)
(***************************************************************************)
\* Processing f changes something that C35 names.
OtherChanges(c, f) ==
    /\ OnOther(c, f)
    /\ \/ st' /= st
       \/ access_ctx' /= access_ctx
       \/ stream_map' /= stream_map
       \/ subscribers' /= subscribers
       \/ metrics' /= metrics
       \/ sent' /= sent
       \/ write_buf' /= write_buf

\* C35: a serving handler can process an Error, Info or Auth frame, and
\* doing so changes no connection's state, access context or
\* subscriptions, nor the registry or a counter, and writes nothing.
C35_OtherFramesIgnored ==
    \A c \in Conns : \A f \in OtherFrames :
        CanRead(c) =>
            /\ ENABLED OnOther(c, f)
            /\ ~ENABLED OtherChanges(c, f)

\* A serving connection that holds a receiver with a message pending, and
\* has been written one, is ready to process a second Auth frame.
C35_Witness ==
    \E c \in Conns : \E ch \in ChanStrs :
        /\ CanRead(c)
        /\ Written(c, ch, 1)
        /\ Pending(c, ch, MaxPub)
        /\ ENABLED OnOther(c, AuthF(IdW, <<>>))

(***************************************************************************)
(* A publish without receivers.                                            *)
(***************************************************************************)
\* The k-th authorized Publish was processed and no sender queued it.
\* Publishers number their payloads, so <<k>> names it.
Dropped(k) ==
    /\ k <= metrics.published
    /\ \A ch \in DOMAIN subscribers : \A i \in 1..Len(subscribers[ch]) :
          subscribers[ch][i].wire.payload /= <<k>>

\* A frame written to c carries the payload of the k-th Publish.
SentPayload(c, k) ==
    LET frames == DecodeAll(SentBytes(c)) IN
    \E j \in 1..Len(frames) : frames[j].tag = "Publish" /\ frames[j].payload = <<k>>

\* C36: an authorized Publish to a channel without a registry entry or
\* without a receiver leaves the registry and every queue as they are and
\* the publisher ready for its next frame; the message is never written
\* to any connection, whoever subscribes afterwards, and a new receiver
\* starts behind everything its sender has queued.
C36_NoReplay ==
    /\ [][\A c \in Conns : \A f \in PublishFrames :
            LET ch == from_utf8_lossy(f.channel) IN
            (/\ OnPublish(c, f)
             /\ can_publish(access_ctx[c].v, ch)
             /\ Receivers(ch) = {})
                => /\ subscribers' = subscribers
                   /\ CanRead(c)'
                   /\ Dropped(metrics.published)']_vars
    /\ [](\A k \in 1..MaxPub : Dropped(k) => \A c \in Conns : ~SentPayload(c, k))
    /\ [][\A c \in Conns : \A ch \in ChanStrs :
            (ch \notin DOMAIN stream_map[c] /\ ch \in DOMAIN stream_map'[c])
                => stream_map'[c][ch] = QLen(ch)]_vars

\* The first Publish found no receiver; a connection that subscribed
\* afterwards was written the second one and not the first.
C36_Witness ==
    \E c \in Conns : \E ch \in ChanStrs :
        /\ Dropped(1)
        /\ QLen(ch) >= 1
        /\ subscribers[ch][1].wire.payload = <<2>>
        /\ Written(c, ch, 1)
        /\ SentPayload(c, 2)
        /\ ~SentPayload(c, 1)

(***************************************************************************)
(* Batches.                                                                *)
(***************************************************************************)
\* The step writes a batch to c's socket.
Writes(c) == sent'[c] /= sent[c] /\ pc[c] = "drain"

\* The batch holds between 1 and BATCH_LIMIT messages.
Bounded(w) == 1 <= Len(w.items) /\ Len(w.items) <= BATCH_LIMIT

\* The bytes of the batch are whole frames, one per message.
WholeFrames(w) ==
    /\ Len(Chunks(w.bytes)) = Len(w.items)
    /\ Flatten(Chunks(w.bytes)) = w.bytes
    /\ Len(FramesOf(w)) = Len(w.items)

\* C37 as stated: every outbound wakeup of the serving loop puts at least
\* one message into the write buffer.
C37_EveryWakeupAppends ==
    [][\A c \in Conns : OutboundFirst(c) => Len(write_buf'[c].items) >= 1]_vars

\* C37: an outbound wakeup that yields a message starts a batch with it,
\* and one that yields Lagged appends and writes nothing; a batch being
\* built holds 1 to BATCH_LIMIT messages; it is written in one write of
\* whole frames, one per message, and the buffer is empty whenever the
\* loop waits; the write of a batch moves no receiver, so what is still
\* ready stays queued, and after it the handler can read an inbound frame.
C37_BoundedBatches ==
    /\ [][\A c \in Conns :
            OutboundFirst(c) =>
                IF \E ch \in DOMAIN stream_map[c] : Reads(c, ch) /\ Overflowed(c, ch)
                THEN write_buf' = write_buf /\ sent' = sent /\ pc'[c] = "select"
                ELSE Len(write_buf'[c].items) = 1 /\ sent' = sent /\ pc'[c] = "drain"]_vars
    /\ [](\A c \in Conns :
            /\ pc[c] = "drain" => Bounded(write_buf[c])
            /\ (pc[c] = "select" /\ st[c] = "Serving") => write_buf[c] = EmptyBuf
            /\ \A j \in 1..Len(Batches(c)) :
                  Bounded(Batches(c)[j]) /\ WholeFrames(Batches(c)[j]))
    /\ [][\A c \in Conns :
            Writes(c) =>
                /\ sent'[c] = Append(sent[c], write_buf[c])
                /\ write_buf'[c] = EmptyBuf
                /\ pc'[c] = "select"
                /\ rd[c] = "open" => CanRead(c)'
                /\ DrainWrite(c) => stream_map' = stream_map]_vars

\* A batch of BATCH_LIMIT messages was written while more was published;
\* what did not fit was written by a later wakeup.
C37_Witness ==
    \E c \in Conns : \E ch \in ChanStrs :
        /\ Len(Batches(c)) = 2
        /\ Len(Batches(c)[1].items) = BATCH_LIMIT
        /\ Written(c, ch, BATCH_LIMIT + 1)
        /\ \A i \in 1..(BATCH_LIMIT + 1) : Written(c, ch, i)
        /\ metrics.lagged = 0

(***************************************************************************)
(* What a client is sent.                                                  *)
(***************************************************************************)
\* The step writes something to c that is not its Info frame.
WritesAfterInfo(c) == sent'[c] /= sent[c] /\ sent[c] /= <<>>

WireIdentLens == {0, 1, 3}
AuthIdentLens == {1, 3, STR8_MAX}
ChannelLens == {1, 2}

\* The payload with which a Publish frame is MAXBUF bytes long on the wire.
LargestPayload(identLen, channelLen) == MAXBUF - 5 - (1 + identLen) - (1 + channelLen)

\* Payload lengths: empty, one byte, and around the largest one.
PayloadLens(identLen, channelLen) ==
    {0, 1} \cup { LargestPayload(identLen, channelLen) + k : k \in {-1, 0, 1} }

\* A publisher authenticated with an ident of `ident` bytes sends a Publish
\* frame, built by the client library, whose fields have the given lengths.
ForwardCalls ==
    UNION { { [fn |-> "forward", wire |-> w, ident |-> i, channel |-> ch, payload |-> p,
               res |-> None] : p \in PayloadLens(w, ch) } :
            w \in WireIdentLens, i \in AuthIdentLens, ch \in ChannelLens }

InitForward ==
    /\ InitBroker(ConfiguredUsers)
    /\ call \in ForwardCalls

\* The frame of the call on the wire, the broker's decode of it, and for
\* an accepted frame lines 398-404: the outbound frame under the
\* authenticated ident, its encoding, which is handed to the sender if
\* encode succeeds, and what a subscriber's decoder makes of those bytes.
Forward ==
    LET ctx == AccessContext(Fill(call.ident, 64), <<STAR>>, <<STAR>>)
        inbound == decode(encode_to_bytes(PublishF(Fill(call.wire, 47),
                                                    Fill(call.channel, 96),
                                                    Fill(call.payload, 80))).v)
        accepted == inbound.kind = "frame"
        b == IF accepted THEN encode_to_bytes(Outbound(ctx, inbound.frame))
             ELSE [ok |-> FALSE, v |-> <<>>]
        forwarded == /\ accepted
                     /\ can_publish(ctx, from_utf8_lossy(inbound.frame.channel))
                     /\ b.ok IN
    /\ call.fn = "forward"
    /\ ~call.res.some
    /\ call' = [call EXCEPT !.res =
                  Some([accepted |-> accepted,
                        forwarded |-> forwarded,
                        size |-> IF forwarded THEN Len(b.v) ELSE 0,
                        subscriber |-> IF forwarded THEN decode(b.v).kind ELSE "none"])]
    /\ UNCHANGED broker_vars

SpecForward == InitForward /\ [][Forward]_vars

\* The broker accepted the Publish of the call and forwarded it.
Forwarded == call.fn = "forward" /\ call.res.some /\ call.res.v.forwarded

\* C39: every Publish frame the broker forwards is at most MAXBUF bytes
\* long and decodes at the subscriber, also when the authenticated ident is
\* longer than the ident on the wire.
C39_ForwardedFits ==
    Forwarded => call.res.v.size <= MAXBUF /\ call.res.v.subscriber = "frame"

\* A publisher whose authenticated ident is longer than the ident it put
\* on the wire sent a frame of exactly MAXBUF bytes: the broker accepted
\* it and forwarded a longer frame, which the subscriber's decoder refuses.
C39_Witness ==
    /\ Forwarded
    /\ call.ident > call.wire
    /\ call.payload = LargestPayload(call.wire, call.channel)
    /\ call.res.v.size = MAXBUF + call.ident - call.wire
    /\ call.res.v.subscriber = "error"

(***************************************************************************)
(* Subscribers of one channel see its messages in one order.               *)
(***************************************************************************)
\* The Publish frames a peer decodes from the bytes written to c, in the
\* order of the writes.
SentFrames(c) ==
    LET fs == Flatten([j \in 1..Len(Batches(c)) |-> FramesOf(Batches(c)[j])]) IN
    SelectSeq(fs, LAMBDA f : f.tag = "Publish")

\* Two frames carry the same message: every accepted Publish has a payload
\* of its own.
SameMessage(f, g) == f.channel = g.channel /\ f.payload = g.payload

====
